---- MODULE Spec2Model ----
(***************************************************************************)
(* A model of the opera Opus parser: packet framing (src/src/packet.rs),   *)
(* multistream demultiplexing and the range decoder (src/src/ec.rs).       *)
(*                                                                         *)
(* Conventions.                                                            *)
(*  - A byte slice is a sequence of numbers in 0..255.  Rust's slice index *)
(*    k is position k + 1 here.                                            *)
(*  - usize values are TLA+ integers.  A negative number n stands for the  *)
(*    wrapped value 2^64 + n that an underflowing subtraction leaves in a  *)
(*    build without overflow checks.                                       *)
(*  - A panic is an outcome of its own, tag "Panic".                       *)
(*  - Arithmetic overflow panics in a build with overflow checks and wraps *)
(*    in a build without: the parameter oc (overflow checks) selects the   *)
(*    build, and every action draws it from BOOLEAN.                       *)
(***************************************************************************)
EXTENDS Integers, Sequences, FiniteSets, TLC

VARIABLES
    pkt_data,         \* the bytes handed to Packet::new_with_framing
    self_delimiting,  \* its self_delimiting argument
    pkt_pc,           \* position inside new_with_framing
    pkt_loc,          \* the locals passed on to the dispatched decode function
    pkt_out,          \* the value new_with_framing returns (or its panic)
    ms_data,          \* the bytes handed to Multistream::new
    ms_streams,       \* mapping_table.streams()
    ms_i,             \* the index the scan of Multistream::new has reached
    ms_rest,          \* the scan's state: the bytes not yet parsed
    ms_packets,       \* the packets collected so far
    ms_out,           \* what Multistream::new returns: "Ok", an error, a panic
    ms_iter,          \* the iterator Multistream::frames returns
    ms_yielded,       \* the <<packet index, frame index>> of the frames yielded
    ec_data,          \* RangeDecoder.data, the borrowed buffer
    index_ec,         \* RangeDecoder.index_ec
    index_raw,        \* RangeDecoder.index_raw
    range,            \* RangeDecoder.range, a u32
    renorm,           \* RangeDecoder.renorm
    value,            \* RangeDecoder.value, a u32
    ec_pc,            \* "unborn", "live", or how the last call ended: "panicked", "hung",
                      \* "misused" (decode_icdf read a table that does not end in 0)
    ec_last,          \* the last call: its name, argument, Some/None and value
    ec_ops,           \* the number of state-changing calls made
    comments,         \* Comments.comments, the blob of the comment header
    comments_num,     \* Comments.comments_num
    comments_read,    \* Comments.comments_read
    pos,              \* Comments.pos
    cm_pc,            \* "unborn" before CommentHeader::comments, then "live",
                      \* "panicked" once a next() panicked
    usize_bits,       \* the width of usize on the target: 32 or 64
    cm_last,          \* the last next() call: the cursor it met and what it returned
    cm_calls,         \* the number of next() calls made
    id_data,          \* the bytes given to IdHeader::new
    id_pc,            \* "ready" or "done"
    id_out,           \* what IdHeader::new returned
    rd_stream,        \* the Ogg packets the PacketReader has to give, in order
    rd_pc,            \* "ready" or "done"
    rd_out,           \* what OggOpusReader::new returned
    ch_data,          \* the bytes given to CommentHeader::new
    ch_pc,            \* "ready" or "done"
    ch_out,           \* what CommentHeader::new returned
    mp_channels,      \* the channel count given to a constructor of channel.rs
    mp_family,        \* the mapping family given to ChannelMapping::new
    mp_table,         \* the mapping table bytes given to it
    mp_pc,            \* "ready", then the constructor that was called
    mp_out,           \* what it returned
    fr_stream,        \* the data of the Ogg packets the PacketReader has to give
    fr_streams,       \* reader.id_header.channels().streams()
    fr_read,          \* the number of Ogg packets read from the PacketReader
    fr_frames,        \* Frames.frames, each frame with the place it came from
    fr_pc,            \* "live", or "panicked" once a next() panicked
    fr_last,          \* the last next() call: what it returned
    fr_calls,         \* the number of next() calls made
    fr_yielded        \* the places of the frames yielded so far, in order

pkt_vars == <<pkt_data, self_delimiting, pkt_pc, pkt_loc, pkt_out>>

ec_vars == <<ec_data, index_ec, index_raw, range, renorm, value, ec_pc, ec_last, ec_ops>>

ms_vars == <<ms_data, ms_streams, ms_i, ms_rest, ms_packets, ms_out, ms_iter, ms_yielded>>

cm_vars ==
    <<comments, comments_num, comments_read, pos, cm_pc, cm_last, cm_calls, usize_bits>>

id_vars == <<id_data, id_pc, id_out>>

rd_vars == <<rd_stream, rd_pc, rd_out>>

ch_vars == <<ch_data, ch_pc, ch_out>>

mp_vars == <<mp_channels, mp_family, mp_table, mp_pc, mp_out>>

fr_vars ==
    <<fr_stream, fr_streams, fr_read, fr_frames, fr_pc, fr_last, fr_calls, fr_yielded>>

ogg_vars == <<cm_vars, id_vars, rd_vars, ch_vars, mp_vars, fr_vars>>

----------------------------------------------------------------------------
(* Bounds of the model.                                                    *)

MaxBody == 2
MaxFill == 6
MaxMsLen == 6
MaxStreams == 3
MaxOps == 2

----------------------------------------------------------------------------
(* Slices.                                                                 *)

Fill(b, n) == [i \in 1..n |-> b]

\* &data[a..]
From(data, a) == SubSeq(data, a + 1, Len(data))

\* &data[a..b]
Slice(data, a, b) == SubSeq(data, a + 1, b)

\* slice.get(a..b) is Some: a negative bound is a wrapped, huge usize
InRange(data, a, b) == 0 <= a /\ a <= b /\ b <= Len(data)

\* slice.get(a..) is Some
InRangeFrom(data, a) == 0 <= a /\ a <= Len(data)

RECURSIVE SumLen(_)
SumLen(fs) == IF fs = <<>> THEN 0 ELSE Len(Head(fs)) + SumLen(Tail(fs))

----------------------------------------------------------------------------
(* Table of contents, configuration, frame count byte.                     *)

IMPLICIT_LEN_MAX == 1275
DURATION_MAX == 120000

ConfigNumber(toc) == toc \div 8

Mode(config) ==
    IF config <= 11 THEN "Silk" ELSE IF config <= 15 THEN "Hybrid" ELSE "Celt"

Bandwidth(config) ==
    IF config \in (0..3) \cup (16..19) THEN "Narrowband"
    ELSE IF config \in 4..7 THEN "MediumBand"
    ELSE IF config \in (8..11) \cup (20..23) THEN "Wideband"
    ELSE IF config \in {12, 13} \cup (24..27) THEN "SuperWideband"
    ELSE "Fullband"

FrameSize(config) ==
    IF config \in {16, 20, 24, 28} THEN "TwoPointFive"
    ELSE IF config \in {17, 21, 25, 29} THEN "Five"
    ELSE IF config \in {0, 4, 8, 12, 14, 18, 22, 26, 30} THEN "Ten"
    ELSE IF config \in {1, 5, 9, 13, 15, 19, 23, 27, 31} THEN "Twenty"
    ELSE IF config \in {2, 6, 10} THEN "Fourty"
    ELSE "Sixty"

as_microseconds(fs) ==
    CASE fs = "TwoPointFive" -> 2500
      [] fs = "Five" -> 5000
      [] fs = "Ten" -> 10000
      [] fs = "Twenty" -> 20000
      [] fs = "Fourty" -> 40000
      [] fs = "Sixty" -> 60000

Config(toc) ==
    [mode |-> Mode(ConfigNumber(toc)),
     bandwidth |-> Bandwidth(ConfigNumber(toc)),
     frame_size |-> FrameSize(ConfigNumber(toc))]

stereo(toc) == (toc \div 4) % 2 = 1

\* the layout taken from the two bits above the stereo flag
frames_layout_config_bits(toc) == (toc \div 8) % 4

frames_layout(toc) == toc % 4

vbr(fc) == fc \div 128 = 1

fc_padding(fc) == (fc \div 64) % 2 = 1

frame_count(fc) == fc % 64

----------------------------------------------------------------------------
(* Results.                                                                *)
(* hdr is the number of header bytes (frame count byte, padding size       *)
(* bytes, length codes) the decode function read after the TOC byte, and   *)
(* pad the decoded padding size: both are locals of the code.              *)

NoConfig == [mode |-> "none", bandwidth |-> "none", frame_size |-> "none"]

Ok(frames, trailing, hdr, pad) ==
    [tag |-> "Ok", err |-> "none", frames |-> frames, trailing |-> trailing,
     hdr |-> hdr, pad |-> pad]

Err(e) ==
    [tag |-> "Err", err |-> e, frames |-> <<>>, trailing |-> <<>>,
     hdr |-> 0, pad |-> 0]

Panic ==
    [tag |-> "Panic", err |-> "none", frames |-> <<>>, trailing |-> <<>>,
     hdr |-> 0, pad |-> 0]

----------------------------------------------------------------------------
(* Packet::length_code: the length and the number of bytes of the code.    *)

\* a length code that is always the one byte
length_code_one_byte(data) ==
    IF Len(data) = 0 THEN [tag |-> "Err", len |-> 0, offset |-> 0]
    ELSE [tag |-> "Ok", len |-> data[1], offset |-> 1]

length_code(data) ==
    IF Len(data) = 0 THEN [tag |-> "Err", len |-> 0, offset |-> 0]
    ELSE IF data[1] <= 251 THEN [tag |-> "Ok", len |-> data[1], offset |-> 1]
    ELSE IF Len(data) < 2 THEN [tag |-> "Err", len |-> 0, offset |-> 0]
    ELSE [tag |-> "Ok", len |-> data[2] * 4 + data[1], offset |-> 2]

(* Packet::framing.  im is the value of the closure implicit on the        *)
(* payload length, which the internally-framed branch alone calls:         *)
(* [k |-> "Some", v |-> length], [k |-> "None"] or, when the closure       *)
(* panics, [k |-> "Panic"].                                                *)
framing(data, sd, im) ==
    IF sd THEN
        LET lc == length_code(data) IN
        IF lc.tag = "Err" THEN [tag |-> "Err", err |-> "UnexpectedEof"]
        ELSE IF ~InRangeFrom(data, lc.offset + lc.len)
             THEN [tag |-> "Err", err |-> "UnexpectedEof"]
        ELSE [tag |-> "Ok", len |-> lc.len, offset |-> lc.offset,
              more |-> From(data, lc.offset + lc.len)]
    ELSE
        IF im.k = "Panic" THEN [tag |-> "Panic"]
        ELSE IF im.k = "None" THEN [tag |-> "Err", err |-> "UnevenFrameLengths"]
        ELSE IF 0 <= im.v /\ im.v <= IMPLICIT_LEN_MAX
             THEN [tag |-> "Ok", len |-> im.v, offset |-> 0, more |-> data]
        ELSE [tag |-> "Err", err |-> "OverlongFrame"]

(* Packet::padding: the padding size and the number of padding size bytes. *)
RECURSIVE padding_from(_, _, _)
padding_from(data, offset, pad) ==
    IF offset >= Len(data) THEN [tag |-> "Err", padding |-> 0, used |-> 0]
    ELSE IF data[offset + 1] = 255 THEN padding_from(data, offset + 1, pad + 254)
    ELSE [tag |-> "Ok", padding |-> pad + data[offset + 1], used |-> offset + 1]

padding(data) == padding_from(data, 0, 0)

----------------------------------------------------------------------------
(* The decode functions, one per frame layout.                             *)

implicit_code_0(n) == [k |-> "Some", v |-> n]

decode_code_0(sd, data) ==
    LET f == framing(data, sd, implicit_code_0(Len(data))) IN
    IF f.tag = "Panic" THEN Panic
    ELSE IF f.tag = "Err" THEN Err(f.err)
    ELSE IF ~InRange(data, f.offset, f.offset + f.len) THEN Err("UnexpectedEof")
    ELSE Ok(<<Slice(data, f.offset, f.offset + f.len)>>, f.more, f.offset, 0)

\* a halving that does not test the parity of the payload length
implicit_code_1_floor(n) == [k |-> "Some", v |-> n \div 2]

implicit_code_1(n) ==
    IF n % 2 = 0 THEN [k |-> "Some", v |-> n \div 2] ELSE [k |-> "None", v |-> 0]

decode_code_1(sd, data) ==
    LET f == framing(data, sd, implicit_code_1(Len(data))) IN
    IF f.tag = "Panic" THEN Panic
    ELSE IF f.tag = "Err" THEN Err(f.err)
    ELSE IF f.offset > Len(data) THEN Panic
    ELSE LET rest == From(data, f.offset) IN
         IF ~InRange(rest, 0, f.len) THEN Err("UnexpectedEof")
         ELSE IF ~InRange(rest, f.len, f.len * 2) THEN Err("UnexpectedEof")
         ELSE Ok(<<Slice(rest, 0, f.len), Slice(rest, f.len, f.len * 2)>>,
                 f.more, f.offset, 0)


\* the closure of decode_code_2: Some(len - len1), an unsigned subtraction
implicit_code_2(oc, len1, n) ==
    IF n < len1 /\ oc THEN [k |-> "Panic", v |-> 0]
    ELSE [k |-> "Some", v |-> n - len1]

decode_code_2(oc, sd, data) ==
    LET lc == length_code(data) IN
    IF lc.tag = "Err" THEN Err("UnexpectedEof")
    ELSE
    LET len1 == lc.len
        offset1 == lc.offset
        f == framing(From(data, offset1), sd,
                     implicit_code_2(oc, len1, Len(From(data, offset1))))
    IN
    IF f.tag = "Panic" THEN Panic
    ELSE IF f.tag = "Err" THEN Err(f.err)
    ELSE IF offset1 + f.offset > Len(data) THEN Panic
    ELSE
    LET rest == From(data, offset1 + f.offset)
        end == len1 + f.len
    IN
    IF len1 <= Len(rest) THEN
        IF ~InRange(rest, 0, len1) THEN Err("UnexpectedEof")
        ELSE IF ~InRange(rest, len1, end) THEN Err("UnexpectedEof")
        ELSE IF end > Len(f.more) THEN Panic
        ELSE Ok(<<Slice(rest, 0, len1), Slice(rest, len1, end)>>,
                From(f.more, end), offset1 + f.offset, 0)
    ELSE IF sd THEN Err("UnexpectedEof")
    ELSE Err("FrameOverflow")

(* The length pass of decode_code_3_vbr (the scan): the frame lengths, the *)
(* offset after the length codes.                                          *)
RECURSIVE vbr_lens(_, _, _, _, _, _, _, _, _)
vbr_lens(oc, sd, data, count, pad, i, offset, total_len, lens) ==
    IF i = count THEN [tag |-> "Ok", lens |-> lens, offset |-> offset]
    ELSE IF sd \/ i < count - 1 THEN
        IF offset > Len(data) THEN [tag |-> "Panic"]
        ELSE
        LET lc == length_code(From(data, offset)) IN
        IF lc.tag = "Err" THEN [tag |-> "Err"]
        ELSE vbr_lens(oc, sd, data, count, pad, i + 1, offset + lc.offset,
                      total_len + lc.len, Append(lens, lc.len))
    ELSE
        LET last == Len(data) - total_len - offset - pad IN
        IF last < 0 /\ oc THEN [tag |-> "Panic"]
        ELSE vbr_lens(oc, sd, data, count, pad, i + 1, offset, total_len,
                      Append(lens, last))

(* The copy pass of decode_code_3_vbr (the map): the frames and the offset *)
(* after the last of them.                                                 *)
RECURSIVE vbr_frames(_, _, _, _)
vbr_frames(data, lens, offset, frames) ==
    IF lens = <<>> THEN [tag |-> "Ok", frames |-> frames, offset |-> offset]
    ELSE
    LET new_offset == offset + Head(lens) IN
    IF ~InRange(data, offset, new_offset) \/ new_offset < offset THEN [tag |-> "Err"]
    ELSE vbr_frames(data, Tail(lens), new_offset,
                    Append(frames, Slice(data, offset, new_offset)))

decode_code_3_vbr(oc, sd, data, count, pad) ==
    LET ls == vbr_lens(oc, sd, data, count, pad, 0, 0, 0, <<>>) IN
    IF ls.tag = "Panic" THEN Panic
    ELSE IF ls.tag = "Err" THEN Err("UnexpectedEof")
    ELSE
    LET fr == vbr_frames(data, ls.lens, ls.offset, <<>>) IN
    IF fr.tag = "Err" THEN Err("UnexpectedEof")
    ELSE IF ~InRangeFrom(data, fr.offset + pad) THEN Err("UnexpectedEof")
    ELSE Ok(fr.frames, From(data, fr.offset + pad), ls.offset, pad)

RECURSIVE cbr_frames(_, _, _, _, _)
cbr_frames(data, len, count, i, frames) ==
    IF i = count THEN [tag |-> "Ok", frames |-> frames]
    ELSE IF ~InRange(data, len * i, len * (i + 1)) THEN [tag |-> "Err"]
    ELSE cbr_frames(data, len, count, i + 1,
                    Append(frames, Slice(data, len * i, len * (i + 1))))

\* the frame length and length code size of a code 3 CBR packet
cbr_len(sd, data, count) ==
    IF sd THEN
        LET lc == length_code(data) IN
        IF lc.tag = "Err" THEN [tag |-> "Err", err |-> "UnexpectedEof"]
        ELSE [tag |-> "Ok", len |-> lc.len, offset |-> lc.offset]
    ELSE IF Len(data) % count = 0
         THEN [tag |-> "Ok", len |-> Len(data) \div count, offset |-> 0]
    ELSE [tag |-> "Err", err |-> "UnevenFrameLengths"]

decode_code_3_cbr(sd, data, count, pad) ==
    LET l == cbr_len(sd, data, count) IN
    IF l.tag = "Err" THEN Err(l.err)
    ELSE IF l.offset > Len(data) THEN Panic
    ELSE
    LET rest == From(data, l.offset)
        fr == cbr_frames(rest, l.len, count, 0, <<>>)
    IN
    IF fr.tag = "Err" THEN Err("UnexpectedEof")
    ELSE IF ~InRangeFrom(rest, l.len * count + pad) THEN Err("UnexpectedEof")
    ELSE Ok(fr.frames, From(rest, l.len * count + pad), l.offset, pad)

\* a duration test that leaves the frame duration out: it accepts what R5 excludes
overlong_duration_unscaled(count, length_us) == count > DURATION_MAX

\* the second R5 exclusion of decode_code_3
overlong_duration(count, length_us) == count * length_us > DURATION_MAX

(* A head that reads the padding size bytes before it applies the R5       *)
(* exclusions: a truncated padding size hides ZeroFrames and               *)
(* OverlongDuration behind UnexpectedEof.                                  *)
decode_code_3_head_padding_first(config, data) ==
    IF Len(data) = 0 THEN [tag |-> "Err", err |-> "UnexpectedEof"]
    ELSE
    LET fc == data[1]
        p == IF fc_padding(fc) THEN padding(From(data, 1))
             ELSE [tag |-> "Ok", padding |-> 0, used |-> 0]
    IN
    IF p.tag = "Err" THEN [tag |-> "Err", err |-> "UnexpectedEof"]
    ELSE IF frame_count(fc) = 0 THEN [tag |-> "Err", err |-> "ZeroFrames"]
    ELSE IF overlong_duration(frame_count(fc), as_microseconds(config.frame_size))
         THEN [tag |-> "Err", err |-> "OverlongDuration"]
    ELSE [tag |-> "Go", vbr |-> vbr(fc), count |-> frame_count(fc),
          padding |-> p.padding, data |-> From(data, 1 + p.used),
          used |-> 1 + p.used]

(* decode_code_3 up to its dispatch: the R5 exclusions and the padding.    *)
(* "Go" carries the arguments of the VBR or CBR function; used counts the  *)
(* frame count byte and the padding size bytes.                            *)
decode_code_3_head(config, data) ==
    IF Len(data) = 0 THEN [tag |-> "Err", err |-> "UnexpectedEof"]
    ELSE
    LET fc == data[1]
        count == frame_count(fc)
        length_us == as_microseconds(config.frame_size)
    IN
    IF count = 0 THEN [tag |-> "Err", err |-> "ZeroFrames"]
    ELSE IF overlong_duration(count, length_us)
         THEN [tag |-> "Err", err |-> "OverlongDuration"]
    ELSE IF fc_padding(fc) THEN
        LET p == padding(From(data, 1)) IN
        IF p.tag = "Err" THEN [tag |-> "Err", err |-> "UnexpectedEof"]
        ELSE [tag |-> "Go", vbr |-> vbr(fc), count |-> count,
              padding |-> p.padding, data |-> From(data, 1 + p.used),
              used |-> 1 + p.used]
    ELSE [tag |-> "Go", vbr |-> vbr(fc), count |-> count, padding |-> 0,
          data |-> From(data, 1), used |-> 1]

\* the result of the dispatched function, with the header bytes read before it
WithHeader(r, used) == IF r.tag = "Ok" THEN [r EXCEPT !.hdr = @ + used] ELSE r

decode_code_3(oc, sd, config, data) ==
    LET h == decode_code_3_head(config, data) IN
    IF h.tag = "Err" THEN Err(h.err)
    ELSE IF h.vbr
         THEN WithHeader(decode_code_3_vbr(oc, sd, h.data, h.count, h.padding), h.used)
    ELSE WithHeader(decode_code_3_cbr(sd, h.data, h.count, h.padding), h.used)

(* Packet::new_with_framing as one function (Multistream::new calls it).   *)
new_with_framing(oc, data, sd) ==
    IF Len(data) = 0 THEN Err("UnexpectedEof")
    ELSE
    LET toc == data[1]
        body == From(data, 1)
    IN
    CASE frames_layout(toc) = 0 -> decode_code_0(sd, body)
      [] frames_layout(toc) = 1 -> decode_code_1(sd, body)
      [] frames_layout(toc) = 2 -> decode_code_2(oc, sd, body)
      [] frames_layout(toc) = 3 -> decode_code_3(oc, sd, Config(toc), body)


----------------------------------------------------------------------------
(* 32-bit unsigned arithmetic.  A u32 is the pair <<hi, lo>> of its 16-bit *)
(* halves, so that 2^31 and the values above it are representable.         *)

W16 == 2 ^ 16

Pow2(n) == 2 ^ n

u32(n) == <<n \div W16, n % W16>>

u32_lt(a, b) == a[1] < b[1] \/ (a[1] = b[1] /\ a[2] < b[2])

u32_le(a, b) == a = b \/ u32_lt(a, b)

\* a - b modulo 2^32
u32_wrapping_sub(a, b) ==
    LET borrow == IF a[2] < b[2] THEN 1 ELSE 0 IN
    <<(a[1] - b[1] - borrow + 2 * W16) % W16, (a[2] - b[2] + W16) % W16>>

\* a << 8: the bits shifted out are lost
u32_shl8(a) == <<(a[1] % 256) * 256 + a[2] \div 256, (a[2] % 256) * 256>>

\* a >> n for n in 0..31
u32_shr(a, n) ==
    IF n >= 16 THEN <<0, a[1] \div Pow2(n - 16)>>
    ELSE <<a[1] \div Pow2(n), (a[1] % Pow2(n)) * Pow2(16 - n) + a[2] \div Pow2(n)>>

\* the 48-bit product <<carry, hi, lo>> of a u32 and a byte
u32_mul_u8(a, m) ==
    LET l == a[2] * m
        h == a[1] * m + l \div W16
    IN <<h \div W16, h % W16, l % W16>>

\* the 48-bit product <<carry, hi, lo>> of a u32 and a u16
u32_mul_u16(a, m) ==
    LET p == u32_mul_u8(a, m % 256)
        q == u32_mul_u8(a, m \div 256)
        l == p[3] + (q[3] % 256) * 256
        h == p[2] + (q[2] % 256) * 256 + q[3] \div 256 + l \div W16
        c == p[1] + q[1] * 256 + q[2] \div 256 + h \div W16
    IN <<c, h % W16, l % W16>>

\* u32::wrapping_mul by a byte
u32_wrapping_mul(a, m) == LET p == u32_mul_u8(a, m) IN <<p[2], p[3]>>

\* a / d for a u16 d > 0, by long division over the four bytes of a
u32_div_u16(a, d) ==
    LET b3 == a[1] \div 256
        b2 == a[1] % 256
        b1 == a[2] \div 256
        b0 == a[2] % 256
        t2 == (b3 % d) * 256 + b2
        t1 == (t2 % d) * 256 + b1
        t0 == (t1 % d) * 256 + b0
    IN <<(b3 \div d) * 256 + t2 \div d, (t1 \div d) * 256 + t0 \div d>>

\* the largest q below 2^(bit + 1) + q0 with d * q <= a, for d >= 2^16
RECURSIVE u32_div_search(_, _, _, _)
u32_div_search(a, d, bit, q0) ==
    IF bit < 0 THEN q0
    ELSE LET q1 == q0 + Pow2(bit)
             p == u32_mul_u16(d, q1)
         IN IF p[1] = 0 /\ u32_le(<<p[2], p[3]>>, a)
            THEN u32_div_search(a, d, bit - 1, q1)
            ELSE u32_div_search(a, d, bit - 1, q0)

\* a / d for d > 0
u32_div(a, d) ==
    IF d[1] = 0 THEN u32_div_u16(a, d[2])
    ELSE <<0, u32_div_search(a, d, 15, 0)>>

----------------------------------------------------------------------------
(* The packets the model parses.                                           *)

\* header bytes: frame count bytes, length codes, padding size bytes
BodyBytes == {0, 1, 2, 3, 67, 130, 195, 252, 255}

FillBytes == {1, 170}

Bodies == UNION {[1..n -> BodyBytes] : n \in 0..MaxBody}

\* every layout code, mono and stereo, with a short header and a payload
SmallPackets ==
    {<<toc>> \o body \o Fill(b, n) \o Fill(0, z) :
        toc \in 0..3, body \in Bodies, b \in FillBytes, n \in 0..MaxFill, z \in {0, 2}}

\* every TOC byte with a short payload
AllTocPackets == {<<toc>> \o Fill(0, n) : toc \in 0..255, n \in 0..2}

\* code 3, every config and every frame count, CBR and VBR, with count bytes
AllCountPackets ==
    {<<c * 8 + 3, v * 128 + m>> \o Fill(0, m) : c \in 0..31, v \in {0, 1}, m \in 0..63}

\* payloads around the frame length limit
LongPackets ==
    {<<toc>> \o body \o Fill(170, n) :
        toc \in 0..3,
        body \in {<<>>, <<0>>, <<1>>, <<129>>, <<2>>, <<252, 0>>, <<255, 255>>},
        n \in {IMPLICIT_LEN_MAX, IMPLICIT_LEN_MAX + 1,
               2 * IMPLICIT_LEN_MAX, 2 * IMPLICIT_LEN_MAX + 2}}

\* the literal inputs of the documentation
Scenarios ==
    {<<0, 170>>,
     <<252, 17, 34>>,
     <<253, 17, 34>>,
     <<251, 67, 2, 170, 170, 170, 0, 0>>,
     <<251, 128>>}

(* code 3 with a frame count byte that R5 excludes (count 0, or 63 frames) *)
(* in every combination of the V and P flags, followed by nothing or by    *)
(* padding size bytes that never end                                       *)
EarlyRejectPackets ==
    {<<toc, fc>> \o Fill(255, n) :
        toc \in {3, 7, 251}, fc \in {0, 64, 128, 192, 63, 127, 191, 255}, n \in 0..2}

Inputs ==
    {<<>>} \cup SmallPackets \cup AllTocPackets \cup AllCountPackets
           \cup LongPackets \cup Scenarios \cup EarlyRejectPackets

----------------------------------------------------------------------------
(* Packet::new_with_framing, step by step.                                 *)

NoLoc ==
    [config |-> NoConfig, stereo |-> FALSE, data |-> <<>>, count |-> 0,
     padding |-> 0, used |-> 0]

NoOut ==
    [tag |-> "None", err |-> "none", frames |-> <<>>, trailing |-> <<>>,
     hdr |-> 0, pad |-> 0]

IdlePacket ==
    /\ pkt_data = <<>>
    /\ self_delimiting = FALSE
    /\ pkt_pc = "idle"
    /\ pkt_loc = NoLoc
    /\ pkt_out = NoOut

InitPacket ==
    /\ pkt_data \in Inputs
    /\ self_delimiting \in BOOLEAN
    /\ pkt_pc = "start"
    /\ pkt_loc = NoLoc
    /\ pkt_out = NoOut

\* reads the TOC byte and dispatches on the frame layout
NewWithFraming ==
    /\ pkt_pc = "start"
    /\ IF Len(pkt_data) = 0
       THEN /\ pkt_out' = Err("UnexpectedEof")
            /\ pkt_pc' = "done"
            /\ UNCHANGED pkt_loc
       ELSE /\ pkt_pc' = CASE frames_layout(pkt_data[1]) = 0 -> "code0"
                           [] frames_layout(pkt_data[1]) = 1 -> "code1"
                           [] frames_layout(pkt_data[1]) = 2 -> "code2"
                           [] frames_layout(pkt_data[1]) = 3 -> "code3"
            /\ pkt_loc' = [NoLoc EXCEPT !.config = Config(pkt_data[1]),
                                        !.stereo = stereo(pkt_data[1]),
                                        !.data = From(pkt_data, 1)]
            /\ UNCHANGED pkt_out
    /\ UNCHANGED <<pkt_data, self_delimiting, ms_vars, ec_vars, ogg_vars>>

DecodeCode0 ==
    /\ pkt_pc = "code0"
    /\ pkt_out' = decode_code_0(self_delimiting, pkt_loc.data)
    /\ pkt_pc' = "done"
    /\ UNCHANGED <<pkt_data, self_delimiting, pkt_loc, ms_vars, ec_vars, ogg_vars>>

DecodeCode1 ==
    /\ pkt_pc = "code1"
    /\ pkt_out' = decode_code_1(self_delimiting, pkt_loc.data)
    /\ pkt_pc' = "done"
    /\ UNCHANGED <<pkt_data, self_delimiting, pkt_loc, ms_vars, ec_vars, ogg_vars>>

DecodeCode2 ==
    /\ pkt_pc = "code2"
    /\ \E oc \in BOOLEAN :
          pkt_out' = decode_code_2(oc, self_delimiting, pkt_loc.data)
    /\ pkt_pc' = "done"
    /\ UNCHANGED <<pkt_data, self_delimiting, pkt_loc, ms_vars, ec_vars, ogg_vars>>

DecodeCode3 ==
    /\ pkt_pc = "code3"
    /\ LET h == decode_code_3_head(pkt_loc.config, pkt_loc.data) IN
       IF h.tag = "Err"
       THEN /\ pkt_out' = Err(h.err)
            /\ pkt_pc' = "done"
            /\ UNCHANGED pkt_loc
       ELSE /\ pkt_pc' = IF h.vbr THEN "vbr" ELSE "cbr"
            /\ pkt_loc' = [pkt_loc EXCEPT !.data = h.data, !.count = h.count,
                                          !.padding = h.padding, !.used = h.used]
            /\ UNCHANGED pkt_out
    /\ UNCHANGED <<pkt_data, self_delimiting, ms_vars, ec_vars, ogg_vars>>

DecodeCode3Vbr ==
    /\ pkt_pc = "vbr"
    /\ \E oc \in BOOLEAN :
          pkt_out' = WithHeader(decode_code_3_vbr(oc, self_delimiting, pkt_loc.data,
                                                  pkt_loc.count, pkt_loc.padding),
                                pkt_loc.used)
    /\ pkt_pc' = "done"
    /\ UNCHANGED <<pkt_data, self_delimiting, pkt_loc, ms_vars, ec_vars, ogg_vars>>

DecodeCode3Cbr ==
    /\ pkt_pc = "cbr"
    /\ pkt_out' = WithHeader(decode_code_3_cbr(self_delimiting, pkt_loc.data,
                                               pkt_loc.count, pkt_loc.padding),
                             pkt_loc.used)
    /\ pkt_pc' = "done"
    /\ UNCHANGED <<pkt_data, self_delimiting, pkt_loc, ms_vars, ec_vars, ogg_vars>>

NextPacket ==
    \/ NewWithFraming
    \/ DecodeCode0
    \/ DecodeCode1
    \/ DecodeCode2
    \/ DecodeCode3
    \/ DecodeCode3Vbr
    \/ DecodeCode3Cbr

----------------------------------------------------------------------------
(* Multistream::new and Multistream::frames.                               *)

MsBytes == {0, 1, 2, 3}

MsInputs == UNION {[1..n -> MsBytes] : n \in 0..MaxMsLen}

NoIter == [on |-> FALSE, p |-> 0, f |-> 0]

IdleMs ==
    /\ ms_data = <<>>
    /\ ms_streams = 0
    /\ ms_i = 0
    /\ ms_rest = <<>>
    /\ ms_packets = <<>>
    /\ ms_out = [tag |-> "Idle", err |-> "none"]
    /\ ms_iter = NoIter
    /\ ms_yielded = <<>>

InitMs ==
    /\ ms_data \in MsInputs
    /\ ms_streams \in 1..MaxStreams
    /\ ms_i = 0
    /\ ms_rest = ms_data
    /\ ms_packets = <<>>
    /\ ms_out = [tag |-> "None", err |-> "none"]
    /\ ms_iter = NoIter
    /\ ms_yielded = <<>>

\* the framing of packet i: self-delimited unless it is the last
ms_self_delimiting(i, streams) == i # streams - 1

(* One step of the scan in Multistream::new: parse packet ms_i from the    *)
(* bytes the previous packet left.  collect stops at the first error.      *)
MsParse ==
    /\ ms_out.tag = "None"
    /\ ms_i < ms_streams
    /\ \E oc \in BOOLEAN :
         LET r == new_with_framing(oc, ms_rest, ms_self_delimiting(ms_i, ms_streams)) IN
         IF r.tag = "Ok"
         THEN /\ ms_rest' = r.trailing
              /\ ms_packets' = Append(ms_packets,
                                  [config |-> Config(ms_rest[1]),
                                   stereo |-> stereo(ms_rest[1]),
                                   frames |-> r.frames])
              /\ ms_i' = ms_i + 1
              /\ UNCHANGED ms_out
         ELSE /\ ms_out' = [tag |-> r.tag, err |-> r.err]
              /\ UNCHANGED <<ms_rest, ms_packets, ms_i>>
    /\ UNCHANGED <<ms_data, ms_streams, ms_iter, ms_yielded, pkt_vars, ec_vars, ogg_vars>>

\* the scan is exhausted: Multistream::new returns the packets
MsCollect ==
    /\ ms_out.tag = "None"
    /\ ms_i = ms_streams
    /\ ms_out' = [tag |-> "Ok", err |-> "none"]
    /\ UNCHANGED <<ms_data, ms_streams, ms_i, ms_rest, ms_packets, ms_iter, ms_yielded, pkt_vars, ec_vars, ogg_vars>>

\* the order in which Multistream::frames visits the packets: packets.into_iter().rev()
frames_order(n) == [k \in 1..n |-> n + 1 - k]

\* Multistream::frames: the flattened iterator, before its first next()
MsFrames ==
    /\ ms_out.tag = "Ok"
    /\ ~ms_iter.on
    /\ ms_iter' = [on |-> TRUE, p |-> 1, f |-> 1]
    /\ UNCHANGED <<ms_data, ms_streams, ms_i, ms_rest, ms_packets, ms_out, ms_yielded, pkt_vars, ec_vars, ogg_vars>>

(* next() of the flattened iterator: the next frame of the current packet, *)
(* or the first frame of the next packet in the visiting order.            *)
MsFramesNext ==
    /\ ms_iter.on
    /\ ms_iter.p <= Len(ms_packets)
    /\ LET order == frames_order(Len(ms_packets))
           pi == order[ms_iter.p]
       IN
       IF ms_iter.f <= Len(ms_packets[pi].frames)
       THEN /\ ms_yielded' = Append(ms_yielded, <<pi, ms_iter.f>>)
            /\ ms_iter' = [ms_iter EXCEPT !.f = @ + 1]
       ELSE /\ ms_iter' = [ms_iter EXCEPT !.p = @ + 1, !.f = 1]
            /\ UNCHANGED ms_yielded
    /\ UNCHANGED <<ms_data, ms_streams, ms_i, ms_rest, ms_packets, ms_out, pkt_vars, ec_vars, ogg_vars>>

NextMs ==
    \/ MsParse
    \/ MsCollect
    \/ MsFrames
    \/ MsFramesNext

----------------------------------------------------------------------------
(* The range decoder.  A decoder state st is the record of the fields of   *)
(* RangeDecoder, and hung, which is set when a call does not return.       *)

RANGE_MAX == 8388608

\* data.get(i).copied().unwrap_or(0)
byte_or_0(buf, i) == IF i < Len(buf) THEN buf[i + 1] ELSE 0

\* one iteration of the loop of normalize
normalize_step(st) ==
    LET bn == byte_or_0(st.data, st.index_ec)
        sym == (IF st.renorm THEN 128 ELSE 0) + bn \div 2
        v8 == u32_shl8(st.value)
    IN [st EXCEPT !.index_ec = @ + 1,
                  !.range = u32_shl8(@),
                  !.renorm = bn % 2 = 1,
                  !.value = <<v8[1] % 32768, v8[2] + (255 - sym)>>]

\* a decoder that never renormalizes: it leaves range below 2^23
normalize_never(st) == st

\* a normalize that shifts one byte in at most
normalize_one_step(st) ==
    IF u32_le(st.range, u32(RANGE_MAX)) THEN normalize_step(st) ELSE st

(* RangeDecoder::normalize.  A range of 0 never leaves the loop: the call  *)
(* does not return.                                                        *)
RECURSIVE normalize(_)
normalize(st) ==
    IF st.range = <<0, 0>> THEN [st EXCEPT !.hung = TRUE]
    ELSE IF u32_le(st.range, u32(RANGE_MAX)) THEN normalize(normalize_step(st))
    ELSE st

\* RangeDecoder::new
new(buf) ==
    LET b0 == byte_or_0(buf, 0) IN
    normalize([data |-> buf, index_ec |-> 1, index_raw |-> 0, range |-> u32(128),
               renorm |-> b0 % 2 = 1, value |-> u32(127 - b0 \div 2),
               hung |-> FALSE])

None == [some |-> FALSE, v |-> 0]

Some(v) == [some |-> TRUE, v |-> v]

Min(a, b) == IF a < b THEN a ELSE b

\* a symbol lookup that forgets the + 1: it can return ft itself
decode_inner_no_increment(st, ft, dividend) ==
    LET q == u32_div(st.value, dividend) IN
    IF q[1] = 0 THEN ft - Min(ft, q[2]) ELSE 0

\* RangeDecoder::decode_inner
decode_inner(st, ft, dividend) ==
    LET q == u32_div(st.value, dividend) IN
    IF q[1] = 0 THEN ft - Min(ft, Min(q[2] + 1, 65535)) ELSE 0

\* RangeDecoder::decode
decode(st, ft) ==
    IF ft = 0 THEN None
    ELSE LET dividend == u32_div_u16(st.range, ft) IN
         IF dividend = <<0, 0>> THEN None
         ELSE Some(decode_inner(st, ft, dividend))

\* a lookup that passes the bit count where the total 1 << ftb belongs
decode_bin_bits_as_total(st, ftb) ==
    IF ftb >= 32 THEN None
    ELSE LET dividend == u32_shr(st.range, ftb) IN
         IF dividend = <<0, 0>> THEN None
         ELSE IF ftb >= 16 THEN None
         ELSE Some(decode_inner(st, ftb, dividend))

\* RangeDecoder::decode_bin
decode_bin(st, ftb) ==
    IF ftb >= 32 THEN None
    ELSE LET dividend == u32_shr(st.range, ftb) IN
         IF dividend = <<0, 0>> THEN None
         ELSE IF ftb >= 16 THEN None
         ELSE Some(decode_inner(st, Pow2(ftb), dividend))

\* the outcome of a state-changing call: the state it leaves and what it returns
Done(st, ret) == [tag |-> IF st.hung THEN "Hung" ELSE "Ok", st |-> st, ret |-> ret]

Panicked(st) == [tag |-> "Panic", st |-> st, ret |-> None]

\* an update that scales by ft - fl where the code scales by ft - fh
update_low_bound_subtracted(oc, st, fl, fh, ft) ==
    IF ft = 0 THEN Panicked(st)
    ELSE
    LET dividend == u32_div_u16(st.range, ft)
        p == u32_mul_u16(dividend, (ft - fl + W16) % W16)
        dmtsh == <<p[2], p[3]>>
    IN
    IF (p[1] # 0 \/ u32_lt(st.value, dmtsh) \/ u32_lt(st.range, dmtsh)) /\ oc
    THEN Panicked(st)
    ELSE Done(normalize([st EXCEPT !.value = u32_wrapping_sub(st.value, dmtsh),
                                   !.range = u32_wrapping_sub(st.range, dmtsh)]), None)

(* RangeDecoder::update.  Its subtractions and multiplications are the     *)
(* checked operators of u16 and u32.                                       *)
update(oc, st, fl, fh, ft) ==
    IF ft = 0 THEN Panicked(st)
    ELSE
    LET dividend == u32_div_u16(st.range, ft) IN
    IF ft < fh /\ oc THEN Panicked(st)
    ELSE
    LET p == u32_mul_u16(dividend, (ft - fh + W16) % W16)
        dmtsh == <<p[2], p[3]>>
    IN
    IF p[1] # 0 /\ oc THEN Panicked(st)
    ELSE IF u32_lt(st.value, dmtsh) /\ oc THEN Panicked(st)
    ELSE
    LET st1 == [st EXCEPT !.value = u32_wrapping_sub(st.value, dmtsh)] IN
    IF fl > 0 THEN
        IF fh < fl /\ oc THEN Panicked(st1)
        ELSE LET r == u32_mul_u16(dividend, (fh - fl + W16) % W16) IN
             IF r[1] # 0 /\ oc THEN Panicked(st1)
             ELSE Done(normalize([st1 EXCEPT !.range = <<r[2], r[3]>>]), None)
    ELSE IF u32_lt(st.range, dmtsh) /\ oc THEN Panicked(st1)
    ELSE Done(normalize([st1 EXCEPT !.range = u32_wrapping_sub(st.range, dmtsh)]), None)

\* a bit decode whose false branch narrows range and leaves value alone
decode_bit_logp_value_kept(oc, st, logp) ==
    IF logp >= 32 THEN Done(st, None)
    ELSE
    LET rshrlp == u32_shr(st.range, logp) IN
    IF u32_lt(st.value, rshrlp)
    THEN Done(normalize([st EXCEPT !.range = rshrlp]), Some(1))
    ELSE Done(normalize([st EXCEPT !.range = u32_wrapping_sub(st.range, rshrlp)]),
              Some(0))

\* RangeDecoder::decode_bit_logp; it returns Some(1) for true, Some(0) for false
decode_bit_logp(oc, st, logp) ==
    IF logp >= 32 THEN Done(st, None)
    ELSE
    LET rshrlp == u32_shr(st.range, logp) IN
    IF u32_lt(st.value, rshrlp)
    THEN Done(normalize([st EXCEPT !.range = rshrlp]), Some(1))
    ELSE IF u32_lt(st.range, rshrlp) /\ oc THEN Panicked(st)
    ELSE LET st1 == [st EXCEPT !.range = u32_wrapping_sub(st.range, rshrlp)] IN
         IF u32_lt(st.value, rshrlp) /\ oc THEN Panicked(st1)
         ELSE Done(normalize([st1 EXCEPT !.value = u32_wrapping_sub(st.value, rshrlp)]),
                   Some(0))

(* A loop that keeps the range on entry as old_range: it does not store    *)
(* the scaled entry in range when the entry is not taken.                  *)
RECURSIVE icdf_loop_old_range_kept(_, _, _, _, _)
icdf_loop_old_range_kept(oc, st, icdf, rshrftb, i) ==
    IF i >= Len(icdf) THEN Done(st, None)
    ELSE
    LET rticdfv == u32_wrapping_mul(rshrftb, icdf[i + 1]) IN
    IF u32_le(rticdfv, st.value)
    THEN Done(normalize([st EXCEPT !.value = u32_wrapping_sub(st.value, rticdfv),
                                   !.range = u32_wrapping_sub(st.range, rticdfv)]),
              Some(i))
    ELSE icdf_loop_old_range_kept(oc, st, icdf, rshrftb, i + 1)

(* The loop of decode_icdf from index i on; each iteration stores the      *)
(* scaled table entry in range before it tests it.                         *)
RECURSIVE icdf_loop(_, _, _, _, _)
icdf_loop(oc, st, icdf, rshrftb, i) ==
    IF i >= Len(icdf) THEN Done(st, None)
    ELSE
    LET rticdfv == u32_wrapping_mul(rshrftb, icdf[i + 1])
        old_range == st.range
        st1 == [st EXCEPT !.range = rticdfv]
    IN
    IF u32_le(st1.range, st1.value) THEN
        LET st2 == [st1 EXCEPT !.value = u32_wrapping_sub(st1.value, st1.range)] IN
        IF u32_lt(old_range, st2.range) /\ oc THEN Panicked(st2)
        ELSE Done(normalize([st2 EXCEPT !.range = u32_wrapping_sub(old_range, st2.range)]),
                  Some(i))
    ELSE icdf_loop(oc, st1, icdf, rshrftb, i + 1)

\* a shift that wraps its amount (ftb % 32) where the code's checked_shr refuses it
decode_icdf_wrapping_shr(oc, st, icdf, ftb) ==
    icdf_loop(oc, st, icdf, u32_shr(st.range, ftb % 32), 0)

\* RangeDecoder::decode_icdf
decode_icdf(oc, st, icdf, ftb) ==
    IF ftb >= 32 THEN Done(st, None)
    ELSE icdf_loop(oc, st, icdf, u32_shr(st.range, ftb), 0)

\* RangeDecoder::decode_raw: unimplemented!()
decode_raw(st, ft) == Panicked(st)

\* RangeDecoder::decode_raw_bits: unimplemented!()
decode_raw_bits(st, bits) == Panicked(st)

----------------------------------------------------------------------------
(* The decoder as a state machine: a buffer, the constructor, then calls   *)
(* in any order.                                                           *)

Buffers ==
    {<<>>, <<1>>, <<255, 127, 0, 127, 255>>,
     <<0, 1, 2, 3, 4, 5, 6, 7>>, <<170, 85, 170, 85, 170, 85>>}

FtSet == {0, 1, 3, 256, 65535}

FtbSet == {0, 1, 15, 16, 32}

LogpSet == {0, 1, 8, 15, 31, 32}

\* tables that end in 0, as every table of the SILK decoder does, and two
\* that do not
IcdfTables == {<<>>, <<0>>, <<1, 0>>, <<3, 0>>, <<200, 100, 0>>, <<1>>, <<200, 100>>}

IcdfFtbs == {0, 1, 8, 32}

\* the last call: its name, its argument (and table), and what it returned
NoLast == [op |-> "none", arg |-> 0, icdf |-> <<>>, some |-> FALSE, ret |-> 0]

\* the decoder state the variables hold
Self ==
    [data |-> ec_data, index_ec |-> index_ec, index_raw |-> index_raw,
     range |-> range, renorm |-> renorm, value |-> value, hung |-> FALSE]

\* the variables after a state-changing call with outcome r
BecomesWith(r, op, arg, icdf) ==
    /\ index_ec' = r.st.index_ec
    /\ index_raw' = r.st.index_raw
    /\ range' = r.st.range
    /\ renorm' = r.st.renorm
    /\ value' = r.st.value
    /\ ec_pc' = CASE r.tag = "Ok" ->
                       IF icdf # <<>> /\ icdf[Len(icdf)] # 0 /\ arg < 32
                       THEN "misused" ELSE "live"
                  [] r.tag = "Panic" -> "panicked"
                  [] r.tag = "Hung" -> "hung"
    /\ ec_last' = [op |-> op, arg |-> arg, icdf |-> icdf,
                    some |-> r.ret.some, ret |-> r.ret.v]
    /\ ec_ops' = IF op = "new" THEN 0 ELSE ec_ops + 1
    /\ UNCHANGED <<ec_data, pkt_vars, ms_vars, ogg_vars>>

Becomes(r, op, arg) == BecomesWith(r, op, arg, <<>>)

IdleEc ==
    /\ ec_data = <<>>
    /\ index_ec = 0
    /\ index_raw = 0
    /\ range = <<0, 0>>
    /\ renorm = FALSE
    /\ value = <<0, 0>>
    /\ ec_pc = "idle"
    /\ ec_last = NoLast
    /\ ec_ops = 0

InitEc ==
    /\ ec_data \in Buffers
    /\ index_ec = 0
    /\ index_raw = 0
    /\ range = <<0, 0>>
    /\ renorm = FALSE
    /\ value = <<0, 0>>
    /\ ec_pc = "unborn"
    /\ ec_last = NoLast
    /\ ec_ops = 0

EcNew ==
    /\ ec_pc = "unborn"
    /\ Becomes(Done(new(ec_data), None), "new", 0)

EcDecode ==
    /\ ec_pc = "live"
    /\ ec_ops < MaxOps
    /\ \E ft \in FtSet :
         LET r == decode(Self, ft) IN
         ec_last' = [op |-> "decode", arg |-> ft, icdf |-> <<>>,
                     some |-> r.some, ret |-> r.v]
    /\ UNCHANGED <<ec_data, index_ec, index_raw, range, renorm, value, ec_pc, ec_ops,
                   pkt_vars, ms_vars, ogg_vars>>

EcDecodeBin ==
    /\ ec_pc = "live"
    /\ ec_ops < MaxOps
    /\ \E ftb \in FtbSet :
         LET r == decode_bin(Self, ftb) IN
         ec_last' = [op |-> "decode_bin", arg |-> ftb, icdf |-> <<>>,
                     some |-> r.some, ret |-> r.v]
    /\ UNCHANGED <<ec_data, index_ec, index_raw, range, renorm, value, ec_pc, ec_ops,
                   pkt_vars, ms_vars, ogg_vars>>

\* update(fl, fh, ft) after a decode that returned fs, with fl <= fs < fh <= ft
EcUpdate ==
    /\ ec_pc = "live"
    /\ ec_ops < MaxOps
    /\ ec_last.op \in {"decode", "decode_bin"}
    /\ ec_last.some
    /\ LET ft == IF ec_last.op = "decode_bin" THEN Pow2(ec_last.arg) ELSE ec_last.arg IN
       \E oc \in BOOLEAN, fl \in {0, ec_last.ret}, fh \in {ec_last.ret + 1, ft} :
         Becomes(update(oc, Self, fl, fh, ft), "update", ft)

EcDecodeBitLogp ==
    /\ ec_pc = "live"
    /\ ec_ops < MaxOps
    /\ \E oc \in BOOLEAN, logp \in LogpSet :
         Becomes(decode_bit_logp(oc, Self, logp), "decode_bit_logp", logp)

EcDecodeIcdf ==
    /\ ec_pc = "live"
    /\ ec_ops < MaxOps
    /\ \E oc \in BOOLEAN, icdf \in IcdfTables, ftb \in IcdfFtbs :
         BecomesWith(decode_icdf(oc, Self, icdf, ftb), "decode_icdf", ftb, icdf)

EcDecodeRaw ==
    /\ ec_pc = "live"
    /\ ec_ops < MaxOps
    /\ \E ft \in FtSet : Becomes(decode_raw(Self, ft), "decode_raw", ft)

EcDecodeRawBits ==
    /\ ec_pc = "live"
    /\ ec_ops < MaxOps
    /\ \E bits \in FtbSet : Becomes(decode_raw_bits(Self, bits), "decode_raw_bits", bits)

NextEc ==
    \/ EcNew
    \/ EcDecode
    \/ EcDecodeBin
    \/ EcUpdate
    \/ EcDecodeBitLogp
    \/ EcDecodeIcdf
    \/ EcDecodeRaw
    \/ EcDecodeRawBits

----------------------------------------------------------------------------
(* The Ogg encapsulation, src/src/ogg.rs: the comment iterator.            *)

MaxEntries == 2
MaxCalls == 3

\* the longest vendor string and the most bytes after it in a comment header
MaxVendor == 3

MaxTail == 8

\* the most mapping bytes after the two counts of a mapping table
MaxMapping == 6

\* the most Ogg packets of a stream and the most next() calls on its frames
MaxPackets == 2

MaxNexts == 5

\* byteorder's LE::read_u16 and LE::read_u32 of a slice of 2 and of 4 bytes
read_u16(b) == b[1] + 256 * b[2]

read_u32(b) == b[1] + 256 * b[2] + 65536 * b[3] + 16777216 * b[4]


\* LE::read_u32 kept as a u32, <<high 16 bits, low 16 bits>>
read_u32_limbs(b) == <<b[3] + 256 * b[4], b[1] + 256 * b[2]>>

\* the length of the well-formed UTF-8 character s starts with (no overlong
\* form, no surrogate, nothing above U+10FFFF), or, negated, the length of the
\* ill-formed run that one U+FFFD replaces: the longest prefix of a character,
\* at least one byte
utf8_step(s) ==
    LET b == s[1]
        n == Len(s)
        is_cont(c) == 128 <= c /\ c <= 191
        ok2 == /\ n >= 2
               /\ is_cont(s[2])
               /\ (b = 224 => s[2] >= 160)
               /\ (b = 237 => s[2] <= 159)
               /\ (b = 240 => s[2] >= 144)
               /\ (b = 244 => s[2] <= 143)
        ok3 == n >= 3 /\ is_cont(s[3])
        ok4 == n >= 4 /\ is_cont(s[4]) IN
    IF b < 128 THEN 1
    ELSE IF 194 <= b /\ b <= 223 THEN (IF ok2 THEN 2 ELSE -1)
    ELSE IF 224 <= b /\ b <= 239
    THEN (IF ~ok2 THEN -1 ELSE IF ~ok3 THEN -2 ELSE 3)
    ELSE IF 240 <= b /\ b <= 244
    THEN (IF ~ok2 THEN -1 ELSE IF ~ok3 THEN -2 ELSE IF ~ok4 THEN -3 ELSE 4)
    ELSE -1

\* String::from_utf8_lossy(s).into_owned(), as the bytes of the string: every
\* ill-formed run becomes U+FFFD, EF BF BD
RECURSIVE from_utf8_lossy(_)
from_utf8_lossy(s) ==
    IF s = <<>> THEN <<>>
    ELSE LET k == utf8_step(s) IN
         IF k > 0 THEN Slice(s, 0, k) \o from_utf8_lossy(From(s, k))
         ELSE <<239, 191, 189>> \o from_utf8_lossy(From(s, -k))

\* std::str::from_utf8(s).is_ok(): every character of s is well-formed
RECURSIVE from_utf8_ok(_)
from_utf8_ok(s) ==
    IF s = <<>> THEN TRUE
    ELSE utf8_step(s) > 0 /\ from_utf8_ok(From(s, utf8_step(s)))

\* the byte '='
EQUALS == 61

\* cmt.find('='): the byte offset of the first '=', as the set of the offsets
\* of '=' (empty when find returns None)
find_equals(cmt) == {i \in 0..(Len(cmt) - 1) : cmt[i + 1] = EQUALS}

\* what a next() call returns, and the cursor it leaves
NoItem(p, read) ==
    [some |-> FALSE, name |-> <<>>, value |-> <<>>, pos |-> p, read |-> read]

Item(n, v, p, read) ==
    [some |-> TRUE, name |-> n, value |-> v, pos |-> p, read |-> read]

\* cmt_start + cmt_len does not fit the usize of a 32-bit target
cmt_overflows(c, num, read, p) ==
    /\ usize_bits = 32
    /\ p < Len(c) /\ read < num
    /\ InRange(c, p, p + 4)
    /\ \E l \in {read_u32_limbs(Slice(c, p, p + 4))} :
          l[1] + (l[2] + p + 4) \div W16 >= W16

\* Comments::next on the cursor (p, read) over the blob c with comments_num = num;
\* where cmt_start + cmt_len overflows, what the call does when it wraps
Comments_next(c, num, read, p) ==
    IF p < Len(c) /\ read < num
    THEN LET cmt_start == p + 4 IN
         IF ~InRange(c, p, cmt_start) THEN NoItem(p, read)
         ELSE LET np == IF cmt_overflows(c, num, read, p)
                        THEN (read_u32_limbs(Slice(c, p, cmt_start))[2] + cmt_start) % W16
                        ELSE cmt_start + read_u32(Slice(c, p, cmt_start))
                  nread == read + 1 IN
              IF ~InRange(c, cmt_start, np) THEN NoItem(np, nread)
              ELSE LET cmt == Slice(c, cmt_start, np) IN
                   IF ~from_utf8_ok(cmt) THEN NoItem(np, nread)
                   ELSE IF find_equals(cmt) = {} THEN NoItem(np, nread)
                   ELSE LET at == CHOOSE i \in find_equals(cmt) :
                                  \A j \in find_equals(cmt) : i <= j IN
                        Item(Slice(cmt, 0, at), From(From(cmt, at), 1), np, nread)
    ELSE NoItem(p, read)

\* the entries of the comment header's blob: "A=B", "C=", "=", "e'=B" with
\* a two-byte character, and the malformed "AB", FF "=B" and ""
Payloads ==
    {<<65, 61, 66>>, <<67, 61>>, <<61>>, <<195, 169, 61, 66>>,
     <<65, 66>>, <<255, 61, 66>>, <<>>}

le_u32(n) == <<n % 256, (n \div 256) % 256, 0, 0>>

Entry(payload) == le_u32(Len(payload)) \o payload

RECURSIVE EntryLists(_)
EntryLists(n) ==
    IF n = 0 THEN {<<>>}
    ELSE EntryLists(n - 1) \cup
         {Entry(pl) \o rest : pl \in Payloads, rest \in EntryLists(n - 1)}

\* the blobs: entries, then nothing, a cut length, or a length beyond the end
Blobs ==
    {es \o t : es \in EntryLists(MaxEntries),
               t \in {<<>>, <<1, 0>>, <<9, 0, 0, 0, 65>>, <<0, 0, 0, 64>>}}

\* blobs that end in an entry of length 2^32 - 4 or, after an entry, 2^32 - 8:
\* 4 more than the cursor wraps the usize of a 32-bit target
WrapBlobs ==
    {es \o <<252, 255, 255, 255>> : es \in EntryLists(MaxEntries)} \cup
    {es \o <<248, 255, 255, 255>> : es \in EntryLists(MaxEntries) \ {<<>>}}

NoCall ==
    [op |-> "none", pos |-> 0, read |-> 0, some |-> FALSE, name |-> <<>>, value |-> <<>>]

IdleComments ==
    /\ comments = <<>>
    /\ comments_num = 0
    /\ comments_read = 0
    /\ pos = 0
    /\ cm_pc = "idle"
    /\ cm_last = NoCall
    /\ cm_calls = 0

IdleCm == IdleComments /\ usize_bits = 64

\* a comment header holding a blob and a count, its iterator not yet made
InitCm ==
    /\ usize_bits \in {32, 64}
    /\ comments \in Blobs \cup (IF usize_bits = 32 THEN WrapBlobs ELSE {})
    /\ comments_num \in 0..(MaxEntries + 1)
    /\ comments_read = 0
    /\ pos = 0
    /\ cm_pc = "unborn"
    /\ cm_last = NoCall
    /\ cm_calls = 0

\* CommentHeader::comments
CmComments ==
    /\ cm_pc = "unborn"
    /\ cm_pc' = "live"
    /\ comments_read' = 0
    /\ pos' = 0
    /\ cm_last' = [NoCall EXCEPT !.op = "comments"]
    /\ UNCHANGED <<comments, comments_num, cm_calls, usize_bits>>
    /\ UNCHANGED <<pkt_vars, ms_vars, ec_vars, id_vars, rd_vars, ch_vars, mp_vars, fr_vars>>

\* one call of Comments::next: with overflow checks an overflowing
\* cmt_start + cmt_len panics, without them it wraps
CmNext ==
    /\ cm_pc = "live"
    /\ cm_calls < MaxCalls
    /\ \E oc \in BOOLEAN :
         IF oc /\ cmt_overflows(comments, comments_num, comments_read, pos)
         THEN /\ cm_pc' = "panicked"
              /\ cm_last' = [op |-> "next", pos |-> pos, read |-> comments_read,
                             some |-> FALSE, name |-> <<>>, value |-> <<>>]
              /\ UNCHANGED <<pos, comments_read>>
         ELSE LET r == Comments_next(comments, comments_num, comments_read, pos) IN
              /\ pos' = r.pos
              /\ comments_read' = r.read
              /\ cm_last' = [op |-> "next", pos |-> pos, read |-> comments_read,
                             some |-> r.some, name |-> r.name, value |-> r.value]
              /\ cm_pc' = cm_pc
    /\ cm_calls' = cm_calls + 1
    /\ UNCHANGED <<comments, comments_num, usize_bits>>
    /\ UNCHANGED <<pkt_vars, ms_vars, ec_vars, id_vars, rd_vars, ch_vars, mp_vars, fr_vars>>

NextCm ==
    \/ CmComments
    \/ CmNext

----------------------------------------------------------------------------
(* The Ogg encapsulation: the identification header and its channel        *)
(* mapping.                                                                *)

OggErr(e) == [tag |-> "Err", err |-> e]

\* LE::read_i16: the 16 bits as a two's complement number
read_i16(b) == IF read_u16(b) >= 32768 THEN read_u16(b) - 65536 ELSE read_u16(b)

\* the channel counts the layouts of ogg.rs accept
RtpChannels == {1, 2}

VorbisChannels == 1..8

AmbisonicsChannels ==
    {1, 3, 4, 6, 9, 11, 16, 18, 25, 27, 36, 38, 49, 51, 64, 66, 81, 83, 100, 102,
     121, 123, 144, 146, 169, 171, 196, 198, 225, 227}

\* StandardMappingTable::new of ogg.rs
OggStandardMappingTable_new(channels, table) ==
    IF Len(table) < 2 THEN OggErr("UnexpectedEof")
    ELSE LET streams == table[1]
             coupled == table[2] IN
         IF streams = 0 \/ streams < coupled \/ streams + coupled > 255
         THEN OggErr("InvalidChannelLayout")
         ELSE IF ~InRange(table, 2, 2 + channels) THEN OggErr("UnexpectedEof")
         ELSE [tag |-> "Ok", streams |-> streams, coupled |-> coupled,
               mapping |-> Slice(table, 2, 2 + channels)]

\* AmbisonicsMappingTable::new of ogg.rs: the matrix entries are u16s
RECURSIVE chunks_u16(_)
chunks_u16(b) ==
    IF Len(b) < 2 THEN <<>> ELSE <<read_u16(b)>> \o chunks_u16(From(b, 2))

OggAmbisonicsMappingTable_new(channels, table) ==
    IF Len(table) < 2 THEN OggErr("UnexpectedEof")
    ELSE LET streams == table[1]
             coupled == table[2] IN
         IF streams = 0 \/ streams < coupled \/ streams + coupled > 255
         THEN OggErr("InvalidChannelLayout")
         ELSE IF ~InRange(table, 2, 2 + 2 * channels) THEN OggErr("UnexpectedEof")
         ELSE [tag |-> "Ok", streams |-> streams, coupled |-> coupled,
               mapping |-> chunks_u16(Slice(table, 2, 2 + 2 * channels))]

\* a ChannelMapping value, the layout converted before the table is read: its
\* variant, the channel count of its layout and its mapping table
WithTable(kind, family, channels, accepted, t) ==
    IF channels \notin accepted THEN OggErr("InvalidChannelLayout")
    ELSE IF t.tag = "Err" THEN t
    ELSE [tag |-> "Ok", kind |-> kind, family |-> family, channels |-> channels,
          streams |-> t.streams, coupled |-> t.coupled, mapping |-> t.mapping]

\* ChannelMapping::new of ogg.rs; ChannelMapping::streams and coupled_streams
\* give 1 and layout - 1 for RTP
OggChannelMapping_new(channels, family, table) ==
    CASE family = 0 ->
           WithTable("RTP", 0, channels, RtpChannels,
                     [tag |-> "Ok", streams |-> 1, coupled |-> channels - 1,
                      mapping |-> <<>>])
      [] family = 1 ->
           WithTable("Vorbis", 1, channels, VorbisChannels,
                     OggStandardMappingTable_new(channels, table))
      [] family = 2 ->
           WithTable("AmbisonicsIndividual", 2, channels, AmbisonicsChannels,
                     OggStandardMappingTable_new(channels, table))
      [] family = 3 ->
           WithTable("AmbisonicsDemixed", 3, channels, AmbisonicsChannels,
                     OggAmbisonicsMappingTable_new(channels, table))
      [] family = 255 ->
           WithTable("Discrete", 255, channels, 0..255,
                     OggStandardMappingTable_new(channels, table))
      [] OTHER -> OggErr("InvalidChannelLayout")

\* "OpusHead"
IdMagic == <<79, 112, 117, 115, 72, 101, 97, 100>>

\* IdHeader::new; the fields of the struct are computed in the order written,
\* version & VERSION_MAJOR_MASK is the high four bits of version in place, and
\* NonZeroU32::new gives None for zero
IdHeader_new(data) ==
    IF ~InRange(data, 0, 8) THEN OggErr("UnexpectedEof")
    ELSE IF Slice(data, 0, 8) # IdMagic THEN OggErr("BadMagic")
    ELSE IF Len(data) < 9 THEN OggErr("UnexpectedEof")
    ELSE LET version == data[9] IN
         IF (version \div 16) * 16 # 0 THEN OggErr("UnsupportedVersion")
         ELSE IF Len(data) < 19 THEN OggErr("UnexpectedEof")
         ELSE LET channels == OggChannelMapping_new(data[10], data[19], From(data, 19)) IN
              IF channels.tag = "Err" THEN channels
              ELSE [tag |-> "Ok",
                    version |-> version,
                    channels |-> channels,
                    pre_skip |-> read_u16(Slice(data, 10, 12)),
                    sample_rate |->
                        IF read_u32_limbs(Slice(data, 12, 16)) = <<0, 0>> THEN None
                        ELSE Some(read_u32_limbs(Slice(data, 12, 16))),
                    output_gain |-> read_i16(Slice(data, 15, 17))]

\* identification headers: the 19 fixed bytes and a mapping table, and
\* headers cut short or with another magic
IdInputs ==
    {IdMagic \o <<v, c>> \o ps \o sr \o gain \o <<f>> \o t :
        v \in {1, 15, 16}, c \in {1, 2, 3},
        ps \in {<<56, 1>>},
        sr \in {<<128, 187, 0, 0>>, <<0, 0, 0, 0>>, <<68, 172, 0, 255>>, <<0, 0, 0, 128>>},
        gain \in {<<0, 0>>, <<0, 1>>, <<255, 255>>, <<1, 128>>},
        f \in {0, 1, 255, 4},
        t \in {<<>>, <<1, 0, 0>>, <<2, 1, 0, 1>>, <<0, 0, 0, 0>>, <<1, 2, 0, 0>>}}
    \cup
    {<<>>, SubSeq(IdMagic, 1, 7), IdMagic, IdMagic \o <<1>>, IdMagic \o <<16>>,
     IdMagic \o <<1, 2, 56, 1, 128, 187, 0, 0, 0, 0>>,
     <<79, 112, 117, 115, 84, 97, 103, 115, 1, 1, 0, 0, 0, 0, 0, 0, 0, 0, 0>>}

NoId == [tag |-> "none"]

IdleId ==
    /\ id_data = <<>>
    /\ id_pc = "idle"
    /\ id_out = NoId

InitId ==
    /\ id_data \in IdInputs
    /\ id_pc = "ready"
    /\ id_out = NoId

\* one call of IdHeader::new
IdNew ==
    /\ id_pc = "ready"
    /\ id_pc' = "done"
    /\ id_out' = IdHeader_new(id_data)
    /\ UNCHANGED id_data
    /\ UNCHANGED <<pkt_vars, ms_vars, ec_vars, cm_vars, rd_vars, ch_vars, mp_vars, fr_vars>>

NextId == IdNew

----------------------------------------------------------------------------
(* The Ogg encapsulation: the comment header and OggOpusReader::new.       *)

PACKET_LEN_MAX == 125829120
COMMENTS_IGNORE_LEN == 61440

\* "OpusTags"
TagsMagic == <<79, 112, 117, 115, 84, 97, 103, 115>>

\* 12 + the vendor length does not fit the usize of a 32-bit target
comments_start_overflows(data) ==
    /\ usize_bits = 32
    /\ Len(data) <= PACKET_LEN_MAX
    /\ InRange(data, 0, 12)
    /\ Slice(data, 0, 8) = TagsMagic
    /\ \E l \in {read_u32_limbs(Slice(data, 8, 12))} : l[1] = W16 - 1 /\ l[2] + 12 >= W16

\* CommentHeader::new; where 12 + the vendor length overflows, what the call
\* does when it wraps
CommentHeader_new(data) ==
    IF Len(data) > PACKET_LEN_MAX THEN OggErr("DenialOfService")
    ELSE IF ~InRange(data, 0, 8) THEN OggErr("UnexpectedEof")
    ELSE IF Slice(data, 0, 8) # TagsMagic THEN OggErr("BadMagic")
    ELSE IF ~InRange(data, 8, 12) THEN OggErr("UnexpectedEof")
    \* a vendor length of 2^31 or more: comments_start is beyond every packet,
    \* or, wrapped on a 32-bit target, below 12
    ELSE IF read_u32_limbs(Slice(data, 8, 12))[1] >= 32768 THEN OggErr("UnexpectedEof")
    ELSE LET comments_start == 12 + read_u32(Slice(data, 8, 12)) IN
         IF ~InRange(data, 12, comments_start) THEN OggErr("UnexpectedEof")
         ELSE IF ~InRange(data, comments_start, comments_start + 4)
         THEN OggErr("UnexpectedEof")
         ELSE LET vendor == from_utf8_lossy(Slice(data, 12, comments_start))
                  num_comments == read_u32(Slice(data, comments_start, comments_start + 4)) IN
              IF Len(data) <= COMMENTS_IGNORE_LEN
              THEN [tag |-> "Ok", comments |-> From(data, comments_start + 4),
                    comments_num |-> num_comments, vendor |-> vendor]
              ELSE IF ~InRange(data, comments_start + 4, COMMENTS_IGNORE_LEN)
              THEN [tag |-> "Panic"]
              ELSE [tag |-> "Ok",
                    comments |-> Slice(data, comments_start + 4, COMMENTS_IGNORE_LEN),
                    comments_num |-> num_comments, vendor |-> vendor]

\* OggOpusReader::new over the packets the PacketReader gives;
\* read_packet_expected fails when the stream has no packet left
OggOpusReader_new(stream) ==
    IF Len(stream) < 1 THEN OggErr("OggRead")
    ELSE LET id_packet == stream[1] IN
         IF ~(id_packet.first_in_stream /\ id_packet.first_in_page
                /\ id_packet.last_in_page)
         THEN OggErr("BadPaging")
         ELSE LET id_header == IdHeader_new(id_packet.data) IN
              IF id_header.tag # "Ok" THEN id_header
              ELSE IF Len(stream) < 2 THEN OggErr("OggRead")
              ELSE LET comments_packet == stream[2] IN
                   IF ~(id_packet.first_in_page /\ id_packet.last_in_page)
                   THEN OggErr("BadPaging")
                   ELSE LET header == CommentHeader_new(comments_packet.data) IN
                        IF header.tag # "Ok" THEN header
                        ELSE [tag |-> "Ok", id_header |-> id_header,
                              comments |-> header, read |-> 2]

\* Ogg packets as the ogg crate gives them: the bytes and the place in the
\* page and in the logical stream
OggPackets(datas) ==
    {[data |-> d, first_in_stream |-> fis, first_in_page |-> fip, last_in_page |-> lip] :
        d \in datas, fis \in BOOLEAN, fip \in BOOLEAN, lip \in BOOLEAN}

\* a mono identification header, and one cut after the magic
IdPackets ==
    {IdMagic \o <<1, 1, 56, 1, 128, 187, 0, 0, 0, 0, 0>>, IdMagic}

\* a comment header with the vendor "x" and the comment "A=B", one with a
\* vendor that is not UTF-8, and one with another magic
TagsPackets ==
    {TagsMagic \o le_u32(1) \o <<120>> \o le_u32(1) \o Entry(<<65, 61, 66>>),
     TagsMagic \o le_u32(2) \o <<255, 120>> \o le_u32(0),
     IdMagic \o le_u32(0) \o le_u32(0)}

\* the streams: no packet, one packet, two packets
OggStreams ==
    {<<>>}
    \cup {<<a>> : a \in OggPackets(IdPackets)}
    \cup {<<a, b>> : a \in OggPackets(IdPackets), b \in OggPackets(TagsPackets)}

IdleRd ==
    /\ rd_stream = <<>>
    /\ rd_pc = "idle"
    /\ rd_out = NoId

InitRd ==
    /\ rd_stream \in OggStreams
    /\ rd_pc = "ready"
    /\ rd_out = NoId

\* one call of OggOpusReader::new
RdNew ==
    /\ rd_pc = "ready"
    /\ rd_pc' = "done"
    /\ rd_out' = OggOpusReader_new(rd_stream)
    /\ UNCHANGED rd_stream
    /\ UNCHANGED <<pkt_vars, ms_vars, ec_vars, cm_vars, id_vars, ch_vars, mp_vars, fr_vars>>

NextRd == RdNew

\* the packets given to CommentHeader::new: a header with the vendor "xy" and
\* the comment "A=B" cut anywhere, every vendor length up to MaxVendor over
\* every tail up to MaxTail, vendor lengths of 2^32 - 13, 2^32 - 12 and
\* 2^32 - 1, another magic, and packets longer than COMMENTS_IGNORE_LEN, as
\* <<length, vendor length>>, whose comments start at 16, at
\* COMMENTS_IGNORE_LEN + 1 and at COMMENTS_IGNORE_LEN + 4
TagsInputs ==
    LET base == TagsMagic \o le_u32(2) \o <<120, 121>> \o le_u32(1) \o Entry(<<65, 61, 66>>)
        long == {<<COMMENTS_IGNORE_LEN + 1, 0>>,
                 <<COMMENTS_IGNORE_LEN + 1, COMMENTS_IGNORE_LEN - 15>>,
                 <<COMMENTS_IGNORE_LEN + 5, COMMENTS_IGNORE_LEN - 12>>}
    IN
    {Slice(base, 0, n) : n \in 0..Len(base)}
    \cup {TagsMagic \o le_u32(v) \o Fill(65, n) : v \in 0..MaxVendor, n \in 0..MaxTail}
    \cup {TagsMagic \o l \o Fill(65, 8) :
            l \in {<<243, 255, 255, 255>>, <<244, 255, 255, 255>>, <<255, 255, 255, 255>>}}
    \cup {IdMagic \o le_u32(0) \o le_u32(0)}
    \cup {TagsMagic \o le_u32(sh[2]) \o Fill(65, sh[1] - 12) : sh \in long}

IdleCh ==
    /\ ch_data = <<>>
    /\ ch_pc = "idle"
    /\ ch_out = NoId

InitCh ==
    /\ usize_bits \in {32, 64}
    /\ ch_data \in TagsInputs
    /\ ch_pc = "ready"
    /\ ch_out = NoId

\* one call of CommentHeader::new: with overflow checks an overflowing
\* 12 + vendor length panics, without them it wraps
ChNew ==
    /\ ch_pc = "ready"
    /\ ch_pc' = "done"
    /\ \E oc \in BOOLEAN :
         ch_out' = IF oc /\ comments_start_overflows(ch_data)
                   THEN [tag |-> "Panic"]
                   ELSE CommentHeader_new(ch_data)
    /\ UNCHANGED <<ch_data, usize_bits>>
    /\ UNCHANGED <<pkt_vars, ms_vars, ec_vars, id_vars, rd_vars, mp_vars, fr_vars>>
    /\ UNCHANGED <<comments, comments_num, comments_read, pos, cm_pc, cm_last, cm_calls>>

----------------------------------------------------------------------------
(* The channel mapping of channel.rs.                                      *)

\* a StandardMappingTable::new without the streams < coupled check
StandardMappingTable_new_any_coupled(channels, table) ==
    IF Len(table) < 2 THEN OggErr("UnexpectedEof")
    ELSE LET streams == table[1]
             coupled == table[2] IN
         IF streams = 0 \/ streams + coupled > 255
         THEN OggErr("IllegalStreams")
         ELSE IF ~InRange(table, 2, 2 + channels) THEN OggErr("UnexpectedEof")
         ELSE [tag |-> "Ok", streams |-> streams, coupled |-> coupled,
               mapping |-> Slice(table, 2, 2 + channels)]

\* StandardMappingTable::new
StandardMappingTable_new(channels, table) ==
    IF Len(table) < 2 THEN OggErr("UnexpectedEof")
    ELSE LET streams == table[1]
             coupled == table[2] IN
         IF streams = 0 \/ streams < coupled \/ streams + coupled > 255
         THEN OggErr("IllegalStreams")
         ELSE IF ~InRange(table, 2, 2 + channels) THEN OggErr("UnexpectedEof")
         ELSE [tag |-> "Ok", streams |-> streams, coupled |-> coupled,
               mapping |-> Slice(table, 2, 2 + channels)]

\* AmbisonicsMappingTable::new
AmbisonicsMappingTable_new(channels, table) ==
    IF Len(table) < 2 THEN OggErr("UnexpectedEof")
    ELSE LET streams == table[1]
             coupled == table[2] IN
         IF streams = 0 \/ streams < coupled \/ streams + coupled > 255
         THEN OggErr("IllegalStreams")
         ELSE IF ~InRange(table, 2, 2 + 2 * channels) THEN OggErr("UnexpectedEof")
         ELSE [tag |-> "Ok", streams |-> streams, coupled |-> coupled,
               mapping |-> chunks_u16(Slice(table, 2, 2 + 2 * channels))]

\* ChannelMapping::new: the layout is converted before the table is read.
\* streams and coupled are what mapping_table() exposes, 1 and layout - 1
\* for RtpChannelLayout.  The layouts of channel.rs take the channel counts
\* those of ogg.rs take.
ChannelMapping_new(channels, family, table) ==
    LET with(kind, accepted, t) ==
            IF channels \notin accepted THEN OggErr("BadChannelsForFamily")
            ELSE IF t.tag = "Err" THEN t
            ELSE [tag |-> "Ok", kind |-> kind, channels |-> channels,
                  streams |-> t.streams, coupled |-> t.coupled, mapping |-> t.mapping]
    IN
    CASE family = 0 ->
           with("RTP", RtpChannels,
                [tag |-> "Ok", streams |-> 1, coupled |-> channels - 1, mapping |-> <<>>])
      [] family = 1 ->
           with("Vorbis", VorbisChannels, StandardMappingTable_new(channels, table))
      [] family = 2 ->
           with("AmbisonicsIndividual", AmbisonicsChannels,
                StandardMappingTable_new(channels, table))
      [] family = 3 ->
           with("AmbisonicsDemixed", AmbisonicsChannels,
                AmbisonicsMappingTable_new(channels, table))
      [] family = 255 ->
           with("Discrete", 0..255, StandardMappingTable_new(channels, table))
      [] OTHER -> OggErr("UnknownFamily")

IdleMp ==
    /\ mp_channels = 0
    /\ mp_family = 0
    /\ mp_table = <<>>
    /\ mp_pc = "idle"
    /\ mp_out = NoId

\* channel counts in and out of every layout, every family and an unknown
\* one, and tables: none, one byte, and (streams, coupled) on and across
\* each limit of the check, before 0 to MaxMapping mapping bytes
InitMp ==
    /\ mp_channels \in {0, 1, 2, 3, 4, 9, 255}
    /\ mp_family \in {0, 1, 2, 3, 4, 255}
    /\ mp_table \in
         {<<>>, <<1>>} \cup
         {sc \o Fill(0, n) :
            sc \in {<<0, 0>>, <<1, 0>>, <<1, 1>>, <<1, 2>>, <<2, 1>>, <<128, 127>>,
                    <<128, 128>>, <<255, 0>>, <<255, 1>>},
            n \in 0..MaxMapping}
    /\ mp_pc = "ready"
    /\ mp_out = NoId

\* one call of a constructor of channel.rs
MpNew ==
    /\ mp_pc = "ready"
    /\ \/ /\ mp_pc' = "ChannelMapping::new"
          /\ mp_out' = ChannelMapping_new(mp_channels, mp_family, mp_table)
       \/ /\ mp_pc' = "StandardMappingTable::new"
          /\ mp_out' = StandardMappingTable_new(mp_channels, mp_table)
       \/ /\ mp_pc' = "AmbisonicsMappingTable::new"
          /\ mp_out' = AmbisonicsMappingTable_new(mp_channels, mp_table)
    /\ UNCHANGED <<mp_channels, mp_family, mp_table>>
    /\ UNCHANGED <<pkt_vars, ms_vars, ec_vars, cm_vars, id_vars, rd_vars, ch_vars, fr_vars>>

----------------------------------------------------------------------------
(* The Ogg frame iterator.  A frame is kept with the place it came from:   *)
(* <<Ogg packet, Opus packet within it, frame within that>>.               *)

(* The scan of Frames::read_packet over the data of Ogg packet n: Opus     *)
(* packet i, self-delimited unless it is the last, then its frames.        *)
(* collect stops at the first error.                                       *)
RECURSIVE Frames_split(_, _, _, _, _, _)
Frames_split(oc, n, data, i, streams, frames) ==
    IF i = streams THEN [tag |-> "Ok", err |-> "none", frames |-> frames]
    ELSE LET r == new_with_framing(oc, data, i # streams - 1) IN
         IF r.tag # "Ok" THEN [tag |-> r.tag, err |-> r.err, frames |-> <<>>]
         ELSE Frames_split(oc, n, r.trailing, i + 1, streams,
                           frames \o [k \in 1..Len(r.frames) |->
                                        [config |-> Config(data[1]),
                                         stereo |-> stereo(data[1]),
                                         data |-> r.frames[k],
                                         at |-> <<n, i, k>>]])

NoFrame == [config |-> Config(0), stereo |-> FALSE, data |-> <<>>, at |-> <<0, 0, 0>>]

(* Frames::next with read_packet: pop a buffered frame; or read one Ogg    *)
(* packet, return its error, or fill the buffer and call next again; None  *)
(* when the PacketReader has no packet left.                               *)
RECURSIVE Frames_next(_, _, _, _, _)
Frames_next(oc, stream, streams, read, frames) ==
    IF frames # <<>>
    THEN [tag |-> "Frame", err |-> "none", frame |-> Head(frames), read |-> read,
          frames |-> Tail(frames)]
    ELSE IF read = Len(stream)
    THEN [tag |-> "None", err |-> "none", frame |-> NoFrame, read |-> read,
          frames |-> frames]
    ELSE LET r == Frames_split(oc, read + 1, stream[read + 1], 0, streams, <<>>) IN
         IF r.tag # "Ok"
         THEN [tag |-> r.tag, err |-> r.err, frame |-> NoFrame, read |-> read + 1,
               frames |-> frames]
         ELSE Frames_next(oc, stream, streams, read + 1, r.frames)

IdleFr ==
    /\ fr_stream = <<>>
    /\ fr_streams = 0
    /\ fr_read = 0
    /\ fr_frames = <<>>
    /\ fr_pc = "idle"
    /\ fr_last = [tag |-> "none", err |-> "none", frame |-> NoFrame]
    /\ fr_calls = 0
    /\ fr_yielded = <<>>

\* Frames::new over a reader with up to MaxPackets Ogg packets left: one Opus
\* packet of code 0, 1 or 3, two self-delimited ones, and the malformed: no
\* byte, no frames, a frame length beyond the data
InitFr ==
    /\ fr_stream \in UNION {[1..n ->
            {<<0>>, <<4, 7>>, <<1, 5, 6>>, <<3, 2, 7, 8>>, <<0, 1, 9, 1, 5, 6>>,
             <<>>, <<3, 0>>, <<3, 130, 1>>}] : n \in 0..MaxPackets}
    /\ fr_streams \in 1..2
    /\ fr_read = 0
    /\ fr_frames = <<>>
    /\ fr_pc = "live"
    /\ fr_last = [tag |-> "none", err |-> "none", frame |-> NoFrame]
    /\ fr_calls = 0
    /\ fr_yielded = <<>>

\* one call of Frames::next
FrNext ==
    /\ fr_pc = "live"
    /\ fr_calls < MaxNexts
    /\ \E oc \in BOOLEAN :
         \E r \in {Frames_next(oc, fr_stream, fr_streams, fr_read, fr_frames)} :
         /\ fr_read' = r.read
         /\ fr_frames' = r.frames
         /\ fr_last' = [tag |-> r.tag, err |-> r.err, frame |-> r.frame]
         /\ fr_pc' = IF r.tag = "Panic" THEN "panicked" ELSE "live"
         /\ fr_yielded' = IF r.tag = "Frame" THEN Append(fr_yielded, r.frame.at)
                          ELSE fr_yielded
    /\ fr_calls' = fr_calls + 1
    /\ UNCHANGED <<fr_stream, fr_streams>>
    /\ UNCHANGED <<pkt_vars, ms_vars, ec_vars, cm_vars, id_vars, rd_vars, ch_vars, mp_vars>>

IdleOgg == IdleCm /\ IdleId /\ IdleRd /\ IdleCh /\ IdleMp /\ IdleFr

----------------------------------------------------------------------------
vars == <<pkt_vars, ms_vars, ec_vars, ogg_vars>>

Init == InitPacket /\ IdleMs /\ IdleEc /\ IdleOgg

Next == NextPacket

Spec == Init /\ [][Next]_vars

InitMultistream == IdlePacket /\ InitMs /\ IdleEc /\ IdleOgg

NextMultistream == NextMs

SpecMultistream == InitMultistream /\ [][NextMultistream]_vars

InitRangeDecoder == IdlePacket /\ IdleMs /\ InitEc /\ IdleOgg

NextRangeDecoder == NextEc

SpecRangeDecoder == InitRangeDecoder /\ [][NextRangeDecoder]_vars

InitComments ==
    IdlePacket /\ IdleMs /\ IdleEc /\ InitCm /\ IdleId /\ IdleRd /\ IdleCh /\ IdleMp /\ IdleFr

SpecComments == InitComments /\ [][NextCm]_vars

InitIdHeader ==
    IdlePacket /\ IdleMs /\ IdleEc /\ IdleCm /\ InitId /\ IdleRd /\ IdleCh /\ IdleMp /\ IdleFr

SpecIdHeader == InitIdHeader /\ [][NextId]_vars

InitOggOpusReader ==
    IdlePacket /\ IdleMs /\ IdleEc /\ IdleCm /\ IdleId /\ InitRd /\ IdleCh /\ IdleMp /\ IdleFr

SpecOggOpusReader == InitOggOpusReader /\ [][NextRd]_vars

InitCommentHeader ==
    IdlePacket /\ IdleMs /\ IdleEc /\ IdleComments /\ IdleId /\ IdleRd /\ InitCh /\ IdleMp /\ IdleFr

SpecCommentHeader == InitCommentHeader /\ [][ChNew]_vars

InitChannelMapping ==
    IdlePacket /\ IdleMs /\ IdleEc /\ IdleCm /\ IdleId /\ IdleRd /\ IdleCh /\ InitMp /\ IdleFr

SpecChannelMapping == InitChannelMapping /\ [][MpNew]_vars

InitFrames ==
    IdlePacket /\ IdleMs /\ IdleEc /\ IdleCm /\ IdleId /\ IdleRd /\ IdleCh /\ IdleMp
      /\ InitFr

SpecFrames == InitFrames /\ [][FrNext]_vars

----------------------------------------------------------------------------
(* The claims about Packet::new_with_framing, under Spec.                  *)

\* the parse of a code 3 packet took the CBR branch
WentCbr == pkt_pc = "done" /\ pkt_loc.count > 0 /\ ~vbr(pkt_data[2])

(* C1: for every byte sequence and both framing modes, new_with_framing    *)
(* returns Ok or Err; it never panics.                                     *)
C1_NeverPanics == pkt_out.tag # "Panic"

(* C4: every frame of a successfully parsed packet is at most 1275 bytes   *)
(* long, in both framing modes and for every layout code.                  *)
C4_FramesAtMost1275 ==
    pkt_out.tag = "Ok" =>
        \A i \in 1..Len(pkt_out.frames) : Len(pkt_out.frames[i]) <= IMPLICIT_LEN_MAX

(* C5: a successfully parsed packet has between 1 and 48 frames, and its   *)
(* frame count times the frame duration of its config is at most 120000    *)
(* microseconds.                                                           *)
C5_CountAndDuration ==
    pkt_out.tag = "Ok" =>
        /\ Len(pkt_out.frames) \in 1..48
        /\ Len(pkt_out.frames) * as_microseconds(pkt_loc.config.frame_size)
               <= DURATION_MAX

\* C5's case: a code 3 packet of 48 frames of 2.5 ms, exactly 120 ms
C5_Witness ==
    /\ pkt_pc = "done"
    /\ pkt_out.tag = "Ok"
    /\ frames_layout(pkt_data[1]) = 3
    /\ Len(pkt_out.frames) = 48
    /\ Len(pkt_out.frames) * as_microseconds(pkt_loc.config.frame_size) = DURATION_MAX

(* C6: when a self-delimited parse succeeds, the trailing slice is the     *)
(* suffix of the input after the last frame and the padding: the bytes     *)
(* consumed are the TOC byte, the header bytes, the frames and the         *)
(* padding.                                                                *)
C6_TrailingIsSuffix ==
    (pkt_out.tag = "Ok" /\ self_delimiting) =>
        /\ Len(pkt_data) - Len(pkt_out.trailing)
               = 1 + pkt_out.hdr + SumLen(pkt_out.frames) + pkt_out.pad
        /\ pkt_out.trailing = From(pkt_data, Len(pkt_data) - Len(pkt_out.trailing))

(* C9: an internally-framed code 3 CBR packet with padding size P and R    *)
(* bytes after the padding size bytes parses to count frames of            *)
(* (R - P) / count bytes each, taken contiguously from the start of those  *)
(* R bytes, when count divides R - P, and fails with UnevenFrameLengths    *)
(* otherwise.                                                              *)
C9_CbrPaddingSubtracted ==
    (WentCbr /\ ~self_delimiting /\ pkt_loc.padding <= Len(pkt_loc.data)) =>
        LET R == Len(pkt_loc.data)
            P == pkt_loc.padding
            n == pkt_loc.count
            len == (R - P) \div n
        IN
        IF (R - P) % n = 0
        THEN /\ pkt_out.tag = "Ok"
             /\ Len(pkt_out.frames) = n
             /\ \A i \in 1..n :
                    pkt_out.frames[i] = Slice(pkt_loc.data, (i - 1) * len, i * len)
        ELSE pkt_out = Err("UnevenFrameLengths")

(* C10: an internally-framed code 2 packet whose first length code names   *)
(* more bytes than remain after it fails with FrameOverflow.               *)
C10_FrameOverflow ==
    (/\ pkt_pc = "done"
     /\ ~self_delimiting
     /\ Len(pkt_data) > 0
     /\ frames_layout(pkt_data[1]) = 2
     /\ length_code(pkt_loc.data).tag = "Ok"
     /\ length_code(pkt_loc.data).len
            > Len(pkt_loc.data) - length_code(pkt_loc.data).offset)
        => pkt_out = Err("FrameOverflow")

(* C11: an internally-framed code 1 packet with n payload bytes after the  *)
(* TOC byte fails with UnevenFrameLengths when n is odd, and when n is     *)
(* even with n / 2 <= 1275 yields exactly two frames, the first and the    *)
(* last n / 2 payload bytes.                                               *)
C11_Code1Halves ==
    (/\ pkt_pc = "done"
     /\ ~self_delimiting
     /\ Len(pkt_data) > 0
     /\ frames_layout(pkt_data[1]) = 1) =>
        LET n == Len(pkt_data) - 1
            h == n \div 2
        IN
        /\ n % 2 = 1 => pkt_out = Err("UnevenFrameLengths")
        /\ (n % 2 = 0 /\ h <= IMPLICIT_LEN_MAX) =>
              /\ pkt_out.tag = "Ok"
              /\ pkt_out.frames = <<SubSeq(pkt_data, 2, 1 + h),
                                    SubSeq(pkt_data, 2 + h, 1 + n)>>

\* C11's case: two frames of 1275 bytes each, the longest the layout allows
C11_Witness ==
    /\ pkt_pc = "done"
    /\ ~self_delimiting
    /\ pkt_out.tag = "Ok"
    /\ frames_layout(pkt_data[1]) = 1
    /\ Len(pkt_out.frames) = 2
    /\ Len(pkt_out.frames[1]) = IMPLICIT_LEN_MAX
    /\ Len(pkt_out.frames[2]) = IMPLICIT_LEN_MAX

(* C12: a code 3 packet whose frame count field is 0 fails with           *)
(* ZeroFrames, and one whose count is not 0 and whose count times the      *)
(* frame duration exceeds 120 ms fails with OverlongDuration, whatever     *)
(* follows the frame count byte and in both framing modes.                 *)
C12_R5BeforePadding ==
    (/\ pkt_pc = "done"
     /\ Len(pkt_data) >= 2
     /\ frames_layout(pkt_data[1]) = 3) =>
        LET count == frame_count(pkt_data[2])
            us == as_microseconds(Config(pkt_data[1]).frame_size)
        IN
        /\ count = 0 => pkt_out = Err("ZeroFrames")
        /\ (count # 0 /\ count * us > DURATION_MAX) => pkt_out = Err("OverlongDuration")

(* C12's case: the P flag is set, no padding size byte follows, and the    *)
(* packet is rejected for its frame count all the same                     *)
C12_Witness ==
    /\ pkt_pc = "done"
    /\ Len(pkt_data) = 2
    /\ frames_layout(pkt_data[1]) = 3
    /\ fc_padding(pkt_data[2])
    /\ frame_count(pkt_data[2]) = 0
    /\ pkt_out = Err("ZeroFrames")

(* C23, as stated: the internally-framed input [0xFC, 0x11, 0x22] parses   *)
(* with config (Celt, Fullband, 20 ms) and stereo = true to exactly two    *)
(* frames, [0x11] and [0x22].                                              *)
C23_TwoFrames ==
    (pkt_pc = "done" /\ ~self_delimiting /\ pkt_data = <<252, 17, 34>>) =>
        /\ pkt_loc.config = [mode |-> "Celt", bandwidth |-> "Fullband",
                             frame_size |-> "Twenty"]
        /\ pkt_loc.stereo
        /\ pkt_out.tag = "Ok"
        /\ pkt_out.frames = <<<<17>>, <<34>>>>

(* C23, amended: [0xFC, 0x11, 0x22] parses with config (Celt, Fullband,    *)
(* 20 ms) and stereo = true to the single frame [0x11, 0x22], no header    *)
(* byte read after the TOC byte; the two frames [0x11] and [0x22] are what *)
(* [0xFD, 0x11, 0x22] parses to, with the same config and stereo flag.     *)
C23_OneFrame ==
    (pkt_pc = "done" /\ ~self_delimiting /\ pkt_data \in {<<252, 17, 34>>, <<253, 17, 34>>}) =>
        /\ pkt_loc.config = [mode |-> "Celt", bandwidth |-> "Fullband",
                             frame_size |-> "Twenty"]
        /\ pkt_loc.stereo
        /\ pkt_out.tag = "Ok"
        /\ pkt_out.hdr = 0
        /\ pkt_out.frames = IF pkt_data[1] = 252 THEN <<<<17, 34>>>>
                            ELSE <<<<17>>, <<34>>>>

\* C23's case: the input of the example, parsed
C23_Witness ==
    /\ pkt_pc = "done"
    /\ ~self_delimiting
    /\ pkt_data = <<252, 17, 34>>
    /\ pkt_out.tag = "Ok"
    /\ Len(pkt_out.frames) = 1

(* C26: length_code returns (L, 1) when the first byte L is in 0..=251 and *)
(* (4 * B + L, 2) when L is in 252..=255 and a second byte B exists; it    *)
(* fails, and the parse with UnexpectedEof, when the first byte is missing *)
(* or L >= 252 and the second byte is missing; every coded length is in    *)
(* 0..=1275 and a two-byte code is never below 252.  Stated of the bytes   *)
(* at the first offsets of the input, where the decode functions read      *)
(* length codes.                                                           *)
C26_LengthCode ==
    /\ \A k \in 0..Min(Len(pkt_data), 4) :
         \A d \in {From(pkt_data, k)} :
           \A r \in {length_code(d)} :
             /\ (Len(d) >= 1 /\ d[1] <= 251) =>
                    r = [tag |-> "Ok", len |-> d[1], offset |-> 1]
             /\ (Len(d) >= 2 /\ d[1] >= 252) =>
                    r = [tag |-> "Ok", len |-> 4 * d[2] + d[1], offset |-> 2]
             /\ (Len(d) = 0 \/ (Len(d) = 1 /\ d[1] >= 252)) => r.tag = "Err"
             /\ r.tag = "Ok" =>
                    /\ r.len \in 0..IMPLICIT_LEN_MAX
                    /\ r.offset \in {1, 2}
                    /\ (r.offset = 2 => r.len >= 252)
    /\ (/\ pkt_pc = "done"
        /\ Len(pkt_data) >= 1
        /\ frames_layout(pkt_data[1]) = 2
        /\ length_code(From(pkt_data, 1)).tag = "Err")
          => pkt_out = Err("UnexpectedEof")

\* C26's case: a code 2 packet whose length code is FF FF, the largest
C26_Witness ==
    /\ pkt_pc = "done"
    /\ Len(pkt_data) >= 3
    /\ frames_layout(pkt_data[1]) = 2
    /\ length_code(From(pkt_data, 1)) = [tag |-> "Ok", len |-> 1275, offset |-> 2]

\* the first n length codes of data, read one after the other: the coded
\* lengths, their sum and the bytes the codes take
RECURSIVE length_codes(_, _, _, _, _)
length_codes(data, n, lens, total, used) ==
    IF n = 0 THEN [tag |-> "Ok", lens |-> lens, total |-> total, used |-> used]
    ELSE IF length_code(From(data, used)).tag = "Err" THEN [tag |-> "Err"]
    ELSE length_codes(data, n - 1,
                      Append(lens, length_code(From(data, used)).len),
                      total + length_code(From(data, used)).len,
                      used + length_code(From(data, used)).offset)

(* C25: a code 3 VBR packet with count M, padding P and R bytes after the  *)
(* padding size bytes reads M - 1 length codes when internally framed and  *)
(* M when self-delimited; frame i has the i-th coded length and, when      *)
(* internally framed, the last frame has R - P - (bytes of the length      *)
(* codes) - (sum of the coded lengths) bytes; the frames lie contiguously  *)
(* in index order right after the length codes; an input too short for the *)
(* length codes or the frames fails with UnexpectedEof.                    *)
C25_VbrLengths ==
    (pkt_pc = "done" /\ pkt_loc.count > 0 /\ vbr(pkt_data[2])) =>
        \A lc \in {length_codes(pkt_loc.data,
                                IF self_delimiting THEN pkt_loc.count
                                ELSE pkt_loc.count - 1, <<>>, 0, 0)} :
          IF lc.tag = "Err" THEN pkt_out = Err("UnexpectedEof")
          ELSE \A lens \in {IF self_delimiting THEN lc.lens
                            ELSE Append(lc.lens, Len(pkt_loc.data) - pkt_loc.padding
                                                   - lc.used - lc.total)} :
                 IF \/ lens[pkt_loc.count] < 0
                    \/ lc.used + lc.total + pkt_loc.padding > Len(pkt_loc.data)
                 THEN pkt_out = Err("UnexpectedEof")
                 ELSE /\ pkt_out.tag = "Ok"
                      /\ Len(pkt_out.frames) = pkt_loc.count
                      /\ \A i \in 1..pkt_loc.count :
                           \A at \in {lc.used + SumLen(SubSeq(pkt_out.frames, 1, i - 1))} :
                             pkt_out.frames[i] = Slice(pkt_loc.data, at, at + lens[i])

----------------------------------------------------------------------------
(* The claims about Multistream, under SpecMultistream.                    *)

(* C7: Multistream::new parses packets 0..S-2 self-delimited and packet    *)
(* S-1 internally framed, each from the trailing bytes of the previous;    *)
(* it returns S packets, or the error of the first packet that fails       *)
(* without parsing a later one.                                            *)
C7_AllPacketsOrFirstError ==
    /\ ms_out.tag \in {"None", "Ok", "Err"}
    /\ ms_out.tag = "Ok" => Len(ms_packets) = ms_streams /\ ms_i = ms_streams
    /\ ms_out.tag = "Err" =>
          /\ ms_i < ms_streams
          /\ Len(ms_packets) = ms_i
          /\ \E oc \in BOOLEAN :
                new_with_framing(oc, ms_rest, ms_self_delimiting(ms_i, ms_streams))
                    = Err(ms_out.err)

(* C8: Multistream::frames yields every frame of packet i before any frame *)
(* of packet j when i < j, and the frames of one packet in increasing      *)
(* index.                                                                  *)
C8_FramesInPacketOrder ==
    \A a, b \in 1..Len(ms_yielded) :
        a < b => \/ ms_yielded[a][1] < ms_yielded[b][1]
                 \/ /\ ms_yielded[a][1] = ms_yielded[b][1]
                    /\ ms_yielded[a][2] < ms_yielded[b][2]

----------------------------------------------------------------------------
(* The claims about RangeDecoder, under SpecRangeDecoder.                  *)

(* C2, as stated: after new and after every later state-changing           *)
(* operation, 2^23 < range <= 2^31 and value < range.  <<32768, 0>> is     *)
(* 2^31.                                                                   *)
C2_RangeWithin31 ==
    ec_pc \notin {"unborn", "misused"} =>
        /\ u32_lt(u32(RANGE_MAX), range)
        /\ u32_le(range, <<32768, 0>>)
        /\ u32_lt(value, range)

(* C2, amended: after new and after every later state-changing operation,  *)
(* 2^23 < range and value < range; range has no bound below 2^32.          *)
C2_RangeAndValue ==
    ec_pc \notin {"unborn", "misused"} =>
        /\ u32_lt(u32(RANGE_MAX), range)
        /\ u32_lt(value, range)

\* C2's case: decode_icdf returned a symbol and left range above 2^31
C2_Witness ==
    /\ ec_pc = "live"
    /\ ec_last.op = "decode_icdf"
    /\ ec_last.some
    /\ u32_lt(<<32768, 0>>, range)

(* C3: every RangeDecoder operation, decode_raw and decode_raw_bits        *)
(* included, completes without panicking.                                  *)
C3_NoOperationPanics == ec_pc # "panicked"

(* C13: on a state with range > 2^23 and value < range, decode(ft) with    *)
(* 1 <= ft <= 65535 returns Some(fs), never None, where                    *)
(* fs = ft - min(ft, value / (range / ft) + 1), so that 0 <= fs < ft.      *)
C13_DecodeFormula ==
    (ec_pc = "live" /\ ec_last.op = "decode" /\ ec_last.arg >= 1) =>
        LET ft == ec_last.arg
            q == u32_div(value, u32_div_u16(range, ft))
        IN
        /\ ec_last.some
        /\ ec_last.ret = IF q[1] = 0 /\ q[2] + 1 < ft THEN ft - (q[2] + 1) ELSE 0
        /\ 0 <= ec_last.ret
        /\ ec_last.ret < ft

\* C13's case: a decode, after the state has changed, that finds a symbol above 0
C13_Witness ==
    /\ ec_pc = "live"
    /\ ec_last.op = "decode"
    /\ ec_ops >= 1
    /\ ec_last.some
    /\ ec_last.ret > 0

(* C14: a call with an out-of-range argument returns None and leaves every *)
(* field of the decoder unchanged: decode(0), decode_bin(ftb) with         *)
(* ftb >= 16, decode_bit_logp(logp) with logp >= 32, decode_icdf with      *)
(* ftb >= 32, and decode_icdf on an empty table.                           *)
C14_OutOfRangeIsNone ==
    [][LET l == ec_last' IN
       (\/ l.op = "decode" /\ l.arg = 0
        \/ l.op = "decode_bin" /\ l.arg >= 16
        \/ l.op = "decode_bit_logp" /\ l.arg >= 32
        \/ l.op = "decode_icdf" /\ (l.arg >= 32 \/ l.icdf = <<>>))
       => /\ ~l.some
          /\ ec_pc' = "live"
          /\ UNCHANGED <<ec_data, index_ec, index_raw, range, renorm, value>>]_vars

(* C14's case: decode_icdf with ftb = 32 on a table that is not empty,     *)
(* called on a state an earlier call has changed                           *)
C14_Witness ==
    /\ ec_pc = "live"
    /\ ec_last.op = "decode_icdf"
    /\ ec_last.arg >= 32
    /\ ec_last.icdf # <<>>
    /\ ~ec_last.some
    /\ ec_ops >= 2

(* Field values a RangeDecoder can be given whether or not any call        *)
(* sequence produces them: small, zero and full-width range and value.     *)
RangeSamples ==
    {<<0, 0>>, <<0, 1>>, <<0, 255>>, <<0, 32768>>, <<128, 0>>, <<128, 1>>,
     <<32768, 0>>, <<49152, 0>>, <<65535, 65535>>}

ValueSamples == {<<0, 0>>, <<0, 300>>, <<127, 65535>>, <<32767, 65535>>, <<65535, 65535>>}

AnyStates == {[Self EXCEPT !.range = r, !.value = v] : r \in RangeSamples, v \in ValueSamples}

(* C15: on every decoder state and for every ftb in 0..15, decode_bin(ftb) *)
(* returns what decode(1 << ftb) returns, and neither call changes the     *)
(* state.                                                                  *)
C15_DecodeBinIsDecode ==
    /\ ec_last.op = "new" =>
          \A ftb \in 0..15 : decode_bin(Self, ftb) = decode(Self, Pow2(ftb))
    /\ ec_pc = "unborn" =>
          \A st \in AnyStates, ftb \in 0..15 : decode_bin(st, ftb) = decode(st, Pow2(ftb))
    /\ (ec_last.op = "decode_bin" /\ ec_last.arg <= 15) =>
          /\ decode(Self, Pow2(ec_last.arg)) = [some |-> ec_last.some, v |-> ec_last.ret]
          /\ ec_pc = "live"

\* C15's case: decode_bin(15) was called on a changed state and found a symbol above 0
C15_Witness ==
    /\ ec_pc = "live"
    /\ ec_last.op = "decode_bin"
    /\ ec_last.arg = 15
    /\ ec_last.some
    /\ ec_last.ret > 0
    /\ ec_ops >= 1

(* C16: on a state with range > 2^23 and value < range, and for logp in    *)
(* 1..15 with ft = 1 << logp, decode_bit_logp(logp) returns true exactly   *)
(* when decode(ft) returns ft - 1, and leaves the state that update(ft - 1, *)
(* ft, ft) leaves when true and that update(0, ft - 1, ft) leaves when     *)
(* false.                                                                  *)
C16_BitLogpIsDecodeUpdate ==
    [][(ec_last'.op = "decode_bit_logp" /\ ec_last'.arg \in 1..15) =>
       \A ft \in {Pow2(ec_last'.arg)} :
       \A bit \in {decode(Self, ft) = Some(ft - 1)} :
       /\ ec_last'.some
       /\ ec_last'.ret = (IF bit THEN 1 ELSE 0)
       /\ ec_pc' = "live"
       /\ \A oc \in BOOLEAN :
          \A u \in {IF bit THEN update(oc, Self, ft - 1, ft, ft)
                    ELSE update(oc, Self, 0, ft - 1, ft)} :
             /\ u.tag = "Ok"
             /\ u.st = [Self EXCEPT !.index_ec = index_ec', !.index_raw = index_raw',
                                    !.range = range', !.renorm = renorm',
                                    !.value = value']]_vars

(* C16's case: decode_bit_logp(8) returned true and the narrowed range was *)
(* renormalized; and: decode_bit_logp(15) returned false                   *)
C16_Witness ==
    /\ ec_pc = "live"
    /\ ec_last.op = "decode_bit_logp"
    /\ ec_last.some
    /\ \/ ec_last.arg = 8 /\ ec_last.ret = 1 /\ index_ec > 1
       \/ ec_last.arg = 15 /\ ec_last.ret = 0 /\ ec_ops >= 2

(* C17: for a table whose last entry is 0 and ftb < 32, with s_k the       *)
(* product (range >> ftb) * table[k] mod 2^32 and s_(-1) the range on      *)
(* entry, decode_icdf returns Some(i) for the least i with value >= s_i,   *)
(* sets value to value - s_i and range to s_(i-1) - s_i, and               *)
(* renormalizes; i is an index of the table.                               *)
C17_IcdfLeastIndex ==
    [][(/\ ec_last'.op = "decode_icdf"
        /\ ec_last'.arg < 32
        /\ ec_last'.icdf # <<>>
        /\ ec_last'.icdf[Len(ec_last'.icdf)] = 0) =>
       \A t \in {ec_last'.icdf} :
       \A s \in {[k \in 0..(Len(t) - 1) |->
                     u32_wrapping_mul(u32_shr(range, ec_last'.arg), t[k + 1])]} :
          /\ ec_last'.some
          /\ ec_last'.ret \in 0..(Len(t) - 1)
          /\ ec_pc' = "live"
          /\ \A i \in {k \in 0..(Len(t) - 1) :
                          /\ u32_le(s[k], value)
                          /\ \A j \in 0..(k - 1) : ~u32_le(s[j], value)} :
             \A after \in {normalize([Self EXCEPT
                              !.value = u32_wrapping_sub(value, s[i]),
                              !.range = u32_wrapping_sub(
                                            IF i = 0 THEN range ELSE s[i - 1], s[i])])} :
                /\ ec_last'.ret = i
                /\ ~after.hung
                /\ after = [Self EXCEPT !.index_ec = index_ec',
                                        !.index_raw = index_raw',
                                        !.range = range', !.renorm = renorm',
                                        !.value = value']]_vars

\* C17's case: the middle entry of a three-entry table was taken, at index 1
C17_Witness ==
    /\ ec_pc = "live"
    /\ ec_last.op = "decode_icdf"
    /\ ec_last.arg < 32
    /\ Len(ec_last.icdf) = 3
    /\ ec_last.some
    /\ ec_last.ret = 1


(* C28: decode_icdf changes no field of the decoder when it returns None,  *)
(* for an empty table, for ftb >= 32 and also for a non-empty table in     *)
(* which no entry stops the search; range > 2^23 still holds after it.     *)
C28_NoneChangesNothing ==
    [][(ec_last'.op = "decode_icdf" /\ ec_pc' # "panicked" /\ ~ec_last'.some) =>
          /\ UNCHANGED <<ec_data, index_ec, index_raw, range, renorm, value>>
          /\ u32_lt(u32(RANGE_MAX), range')]_vars

(* C29: on a live decoder no 32-bit subtraction underflows and no new      *)
(* range is 0: update(fl, fh, ft) after a decode(ft) that returned fs,     *)
(* with fl <= fs < fh <= ft, has value >= (range / ft) * (ft - fh) and     *)
(* ends with a range >= 1 (normalize returns); decode_bit_logp with        *)
(* logp < 32 and decode_icdf returning Some neither underflow nor leave a  *)
(* range of 0.                                                             *)
C29_NoUnderflow ==
    [][/\ ec_last'.op = "update" =>
            /\ ec_pc' = "live"
            /\ \A ft \in {ec_last'.arg} :
               \A fh \in {ec_last.ret + 1, (ec_last.ret + 1 + ft) \div 2, ft} :
               \A p \in {u32_mul_u16(u32_div_u16(range, ft), ft - fh)} :
                  /\ p[1] = 0
                  /\ u32_le(<<p[2], p[3]>>, value)
                  /\ u32_le(<<p[2], p[3]>>, range)
       /\ (ec_last'.op = "decode_bit_logp" /\ ec_last'.arg < 32) => ec_pc' = "live"
       /\ (ec_last'.op = "decode_icdf" /\ ec_last'.some) =>
            ec_pc' \in {"live", "misused"}]_vars

\* C29's case: an update with fl > 0 or fh < ft, after a decode and another call
C29_Witness ==
    /\ ec_pc = "live"
    /\ ec_last.op = "update"
    /\ ec_last.arg = 65535
    /\ ec_ops >= 2

\* ranges normalize is entered with: 1, 255, 2^8, 2^16 - 1, 2^16, 2^23,
\* 2^23 + 1, 2^31 and 3 * 2^30
NormalizeRanges ==
    {<<0, 1>>, <<0, 255>>, <<0, 256>>, <<0, 65535>>, <<1, 0>>, <<128, 0>>,
     <<128, 1>>, <<32768, 0>>, <<49152, 0>>}

(* C30: entered with range >= 1, normalize returns after at most 3         *)
(* iterations, advances index_ec by the number of iterations, reads 0 at   *)
(* and past the end of the buffer, shifts range no further than 2^31 and   *)
(* leaves the buffer and index_raw alone; RangeDecoder::new ends with      *)
(* range = 2^31 and index_ec = 4.  Stated on every step that ends in a     *)
(* live decoder, and on normalize entered from that decoder with each      *)
(* range of NormalizeRanges.                                               *)
C30_NormalizeBounded ==
    [][ec_pc' = "live" =>
         /\ ec_data' = ec_data
         /\ index_raw' = index_raw
         /\ ec_last'.op = "new" => (range' = <<32768, 0>> /\ index_ec' = 4)
         /\ ec_last'.op # "new" => (index_ec' - index_ec) \in 0 .. 3
         /\ \A r \in NormalizeRanges :
            \A st \in {[Self EXCEPT !.range = r]}' :
            \A out \in {normalize(st)} :
            \A k \in {out.index_ec - st.index_ec} :
               /\ ~out.hung
               /\ k \in 0 .. 3
               /\ out.data = st.data
               /\ out.index_raw = st.index_raw
               /\ u32_lt(u32(RANGE_MAX), out.range)
               /\ u32_shr(out.range, 8 * k) = r
               /\ k > 0 => /\ u32_le(out.range, <<32768, 0>>)
                           /\ u32_le(u32_shr(out.range, 8), u32(RANGE_MAX))
               /\ (k > 0 /\ st.index_ec >= Len(st.data)) =>
                    /\ ~out.renorm
                    /\ out.value[2] % 256 =
                         255 - (IF k = 1 /\ st.renorm THEN 128 ELSE 0)]_vars

\* C30's case: new on a buffer shorter than the 4 bytes it consumes
C30_Witness ==
    /\ ec_pc = "live"
    /\ ec_last.op = "new"
    /\ Len(ec_data) < 4
    /\ index_ec = 4

----------------------------------------------------------------------------
(* The claims about the comment iterator, under SpecComments.              *)

\* what a next() that skipped malformed entries would return at the cursor
\* (p, read): the first pair a run of next() calls yields, or nothing when the
\* run stops consuming
RECURSIVE next_well_formed(_, _, _, _)
next_well_formed(c, num, read, p) ==
    LET r == Comments_next(c, num, read, p) IN
    IF r.some \/ r.pos = p THEN r
    ELSE next_well_formed(c, num, r.read, r.pos)

(* C18: a next() call that meets a malformed entry (invalid UTF-8 or no    *)
(* '=') skips it and returns the next well-formed pair if one remains; it  *)
(* returns None only when no well-formed entry remains.                    *)
C18_SkipsMalformed ==
    cm_last.op = "next" =>
        LET w == next_well_formed(comments, comments_num, cm_last.read, cm_last.pos) IN
        /\ cm_last.some = w.some
        /\ (w.some => (cm_last.name = w.name /\ cm_last.value = w.value))


(* C27: a next() call that reads a complete 4-byte length prefix moves     *)
(* the cursor past exactly one entry, pos by 4 + length and comments_read  *)
(* by 1, whether or not the entry is well-formed; over any run of calls    *)
(* comments_read <= comments_num, pos never decreases, and a call yields   *)
(* a pair only by counting an entry, so at most comments_num are yielded.  *)
C27_CursorAdvances ==
    [][cm_last'.op = "next" =>
         /\ cm_pc' = "live"
         /\ (/\ pos < Len(comments)
             /\ comments_read < comments_num
             /\ InRange(comments, pos, pos + 4)) =>
               /\ comments_read' = comments_read + 1
               /\ pos' >= pos + 4
               /\ \A l \in {read_u32_limbs(Slice(comments, pos, pos + 4))} :
                    /\ (pos' - pos - 4) \div W16 = l[1]
                    /\ (pos' - pos - 4) % W16 = l[2]
         /\ comments_read' <= comments_num
         /\ pos' >= pos
         /\ cm_last'.some => comments_read' = comments_read + 1]_vars

----------------------------------------------------------------------------
(* The claims about OggOpusReader::new, under SpecOggOpusReader.           *)

(* C19: OggOpusReader::new fails with BadPaging when the first packet is   *)
(* not first_in_stream, first_in_page and last_in_page, and, the first     *)
(* packet accepted, when the second packet is not both first_in_page and   *)
(* last_in_page.                                                           *)
C19_BadPaging ==
    /\ (/\ rd_pc = "done"
        /\ Len(rd_stream) >= 1
        /\ ~(rd_stream[1].first_in_stream /\ rd_stream[1].first_in_page
               /\ rd_stream[1].last_in_page))
          => rd_out = OggErr("BadPaging")
    /\ (/\ rd_pc = "done"
        /\ Len(rd_stream) >= 2
        /\ rd_stream[1].first_in_stream
        /\ rd_stream[1].first_in_page
        /\ rd_stream[1].last_in_page
        /\ IdHeader_new(rd_stream[1].data).tag = "Ok"
        /\ ~(rd_stream[2].first_in_page /\ rd_stream[2].last_in_page))
          => rd_out = OggErr("BadPaging")

----------------------------------------------------------------------------
(* The claims about IdHeader::new, under SpecIdHeader.                     *)

(* C20: every field of an identification header that parses is the         *)
(* little-endian value at its RFC 7845 offset: version at byte 8, channel  *)
(* count at byte 9, pre_skip at bytes 10-11, input_sample_rate at bytes    *)
(* 12-15, output_gain at bytes 16-17, mapping family at byte 18.           *)
C20_FieldsAtOffsets ==
    (id_pc = "done" /\ id_out.tag = "Ok") =>
        /\ id_out.version = id_data[9]
        /\ id_out.channels.channels = id_data[10]
        /\ id_out.pre_skip = id_data[11] + 256 * id_data[12]
        /\ id_out.sample_rate =
              (IF \A k \in 13..16 : id_data[k] = 0 THEN None
               ELSE Some(<<id_data[15] + 256 * id_data[16],
                           id_data[13] + 256 * id_data[14]>>))
        /\ id_out.output_gain =
              (IF id_data[18] >= 128
               THEN id_data[17] + 256 * id_data[18] - 65536
               ELSE id_data[17] + 256 * id_data[18])
        /\ id_out.channels.family = id_data[19]

----------------------------------------------------------------------------
(* The claims about CommentHeader::new, under SpecCommentHeader.           *)

(* C21: CommentHeader::new returns, without panicking, for every packet of *)
(* at most PACKET_LEN_MAX bytes that starts with "OpusTags", whatever its  *)
(* vendor length; from a packet longer than COMMENTS_IGNORE_LEN the blob   *)
(* it stores holds only bytes located before COMMENTS_IGNORE_LEN; a packet *)
(* longer than PACKET_LEN_MAX is rejected with DenialOfService.            *)
C21_NeverPanics ==
    ch_pc = "done" =>
        /\ (/\ Len(ch_data) <= PACKET_LEN_MAX
            /\ InRange(ch_data, 0, 8)
            /\ Slice(ch_data, 0, 8) = TagsMagic) => ch_out.tag \in {"Ok", "Err"}
        /\ (ch_out.tag = "Ok" /\ Len(ch_data) > COMMENTS_IGNORE_LEN) =>
              \A a \in {16 + read_u32(Slice(ch_data, 8, 12))} :
                 /\ a + Len(ch_out.comments) <= COMMENTS_IGNORE_LEN
                 /\ ch_out.comments = Slice(ch_data, a, a + Len(ch_out.comments))
        /\ Len(ch_data) > PACKET_LEN_MAX => ch_out = OggErr("DenialOfService")

----------------------------------------------------------------------------
(* The claims about ChannelMapping::new, under SpecChannelMapping.         *)

----------------------------------------------------------------------------
(* The claims about the Ogg frame iterator, under SpecFrames.              *)

\* place a comes before place b: Ogg packet, then Opus packet, then frame
at_before(a, b) ==
    \/ a[1] < b[1]
    \/ a[1] = b[1] /\ a[2] < b[2]
    \/ a[1] = b[1] /\ a[2] = b[2] /\ a[3] < b[3]

(* C24: a next() call reads no Ogg packet while frames are buffered and    *)
(* otherwise exactly one, a packet that splits giving at least one frame;  *)
(* frames come out in the order of the stream; the error of a packet that  *)
(* does not parse is returned as Some(Err) by the call that read it; and   *)
(* next() returns None exactly when the reader is at the end of the stream *)
(* and the buffer is empty.                                                *)
C24_LazyInOrder ==
    [][fr_calls' = fr_calls + 1 =>
         /\ fr_pc' = "live"
         /\ fr_frames # <<>> => (fr_read' = fr_read /\ fr_last'.tag = "Frame")
         /\ (fr_frames = <<>> /\ fr_read < Len(fr_stream)) =>
               /\ fr_read' = fr_read + 1
               /\ fr_last'.tag \in {"Frame", "Err"}
               /\ fr_last'.tag = "Frame" =>
                     fr_last'.frame.at = <<fr_read + 1, 0, 1>>
               /\ (\E oc \in BOOLEAN :
                     Frames_split(oc, fr_read + 1, fr_stream[fr_read + 1], 0,
                                  fr_streams, <<>>).tag # "Ok")
                     => fr_last'.tag = "Err"
         /\ fr_last'.tag = "None" <=> (fr_frames = <<>> /\ fr_read = Len(fr_stream))
         /\ fr_last'.tag = "None" => fr_read' = fr_read
         /\ \A a \in 1..Len(fr_yielded') : \A b \in 1..Len(fr_yielded') :
               a < b => at_before(fr_yielded'[a], fr_yielded'[b])]_vars

====
